---- MODULE Spec2Model ----
(***************************************************************************)
(* A model of the HitoriAI responder (src/ai_model.py), its web knowledge  *)
(* scraper (src/web_scraper.py) and the HTTP layer's use of the shared     *)
(* instance (src/app.py).                                                  *)
(*                                                                         *)
(* Strings are TLA+ strings; Python's substring test, lower(), strip() and *)
(* split() are computed character by character.  random.choice is a        *)
(* nondeterministic choice: an operator that models a method drawing at    *)
(* random yields the SET of strings the method can return.  The module's   *)
(* string literals are ASCII without the backquote: a character of the     *)
(* program's strings outside that set is written {uXXXX}, XXXX its code    *)
(* point, which keeps the words of the string apart as the program has     *)
(* them.  Confidence scores are counted in thousandths (0.5 is 500).       *)
(***************************************************************************)
EXTENDS Integers, Sequences, FiniteSets, TLC

VARIABLES
    db_session,           \* TRUE when self.db_session is set (database path)
    db_txn,               \* "clean", or "failed" after a failed commit not rolled back
    knowledge_table,      \* rows of the Knowledge table
    conversation_table,   \* rows of the ConversationHistory table
    learned_responses,    \* knowledge_base["learned_responses"]
    topic_knowledge,      \* knowledge_base["topic_knowledge"]
    user_interactions,    \* knowledge_base["user_interactions"]
    knowledge_file,       \* the knowledge file on disk: its state ("missing", "saved",
                          \* "unparseable") and the knowledge base last written to it
    conversation_memory,  \* self.conversation_memory
    context_keywords,     \* self.context_keywords
    hist,                 \* history: per topic, every entry ever appended to its lists
    trainings,            \* history: the train_from_web calls made so far
    handlers,             \* the /chat requests being handled: for each handler thread,
                          \* where it is in process_message and its local variables
    ret                   \* the last call: its operation, arguments and result

vars == <<db_session, db_txn, knowledge_table, conversation_table, learned_responses,
          topic_knowledge, user_interactions, knowledge_file, conversation_memory,
          context_keywords, hist, trainings, handlers, ret>>

(***************************************************************************)
(* Python string primitives                                                *)
(***************************************************************************)
Char(s, i) == SubSeq(s, i, i)

\* `p in s` for strings
Has(s, p) == \E i \in 1..(Len(s) - Len(p) + 1) : SubSeq(s, i, i + Len(p) - 1) = p

\* the Python slice s[i-1:j]: the characters i..j that exist
Slice(s, i, j) ==
    LET lo == IF i < 1 THEN 1 ELSE i
        hi == IF j > Len(s) THEN Len(s) ELSE j
    IN  IF lo > hi THEN "" ELSE SubSeq(s, lo, hi)

StartsWith(s, p) == Len(p) <= Len(s) /\ SubSeq(s, 1, Len(p)) = p

UpperLetters == "ABCDEFGHIJKLMNOPQRSTUVWXYZ"
LowerLetters == "abcdefghijklmnopqrstuvwxyz"
Digits == "0123456789"

UpperSet == {SubSeq(UpperLetters, i, i) : i \in 1..Len(UpperLetters)}
LowerSet == {SubSeq(LowerLetters, i, i) : i \in 1..Len(LowerLetters)}
DigitSet == {SubSeq(Digits, i, i) : i \in 1..Len(Digits)}

IsUpper(c) == c \in UpperSet
IsLetter(c) == c \in UpperSet \/ c \in LowerSet
IsDigit(c) == c \in DigitSet
\* a regex word character \w
IsWordChar(c) == IsLetter(c) \/ IsDigit(c) \/ c = "_"

\* the lower-case letter of each upper-case letter
LowerOf ==
    [c \in UpperSet |-> Char(LowerLetters, CHOOSE i \in 1..26 : Char(UpperLetters, i) = c)]

LowerChar(c) == IF IsUpper(c) THEN LowerOf[c] ELSE c

\* pieces[lo] \o ... \o pieces[hi], for a function pieces of strings
RECURSIVE ConcatRange(_, _, _)
ConcatRange(pieces, lo, hi) ==
    IF lo > hi THEN ""
    ELSE IF lo = hi THEN pieces[lo]
    ELSE LET mid == (lo + hi) \div 2
         IN  ConcatRange(pieces, lo, mid) \o ConcatRange(pieces, mid + 1, hi)

\* str.lower()
Lower(s) == ConcatRange([i \in 1..Len(s) |-> LowerChar(Char(s, i))], 1, Len(s))

Whitespace == {" ", "\t", "\n", "\r", "\f"}
IsSpace(s, i) == Char(s, i) \in Whitespace

\* str.strip()
Strip(s) ==
    LET keep == {i \in 1..Len(s) : ~IsSpace(s, i)}
    IN  IF keep = {} THEN ""
        ELSE LET lo == CHOOSE i \in keep : \A j \in keep : i <= j
                 hi == CHOOSE i \in keep : \A j \in keep : j <= i
             IN  SubSeq(s, lo, hi)

\* the words of str.split(), in order: each maximal run of non-whitespace
WordStarts(s) == {i \in 1..Len(s) : ~IsSpace(s, i) /\ (i = 1 \/ IsSpace(s, i - 1))}
\* where the word that holds character i ends
RECURSIVE WordEnd(_, _)
WordEnd(s, i) == IF i < Len(s) /\ ~IsSpace(s, i + 1) THEN WordEnd(s, i + 1) ELSE i
\* set(s.split())
SplitSet(s) == {SubSeq(s, i, WordEnd(s, i)) : i \in WordStarts(s)}
\* len(s.split())
SplitLen(s) == Cardinality(WordStarts(s))

\* list[-n:]
LastN(seq, n) == IF Len(seq) <= n THEN seq ELSE SubSeq(seq, Len(seq) - n + 1, Len(seq))
\* list[:n]
FirstN(seq, n) == IF Len(seq) <= n THEN seq ELSE SubSeq(seq, 1, n)
\* `x in list`
InList(x, seq) == \E i \in 1..Len(seq) : seq[i] = x
Range(seq) == {seq[i] : i \in 1..Len(seq)}

(***************************************************************************)
(* Similarity filter: responses_too_similar                                *)
(***************************************************************************)
\* the pair (overlap, total_unique) of the two word sets
WordOverlap(response1, response2) ==
    LET words1 == {Lower(w) : w \in SplitSet(response1)}
        words2 == {Lower(w) : w \in SplitSet(response2)}
    IN  [overlap |-> Cardinality(words1 \cap words2),
         total_unique |-> Cardinality(words1 \cup words2)]

\* A plausible slip: the denominator counts the two word sets separately
\* instead of their union.
responses_too_similar_SumDenominator(response1, response2) ==
    IF response1 = "" \/ response2 = "" THEN FALSE
    ELSE LET words1 == {Lower(w) : w \in SplitSet(response1)}
             words2 == {Lower(w) : w \in SplitSet(response2)}
             overlap == Cardinality(words1 \cap words2)
             total == Cardinality(words1) + Cardinality(words2)
         IN  IF total = 0 THEN FALSE ELSE 10 * overlap > 6 * total

\* overlap / total_unique > 0.6, decided exactly as 10 * overlap > 6 * total_unique
responses_too_similar(response1, response2) ==
    IF response1 = "" \/ response2 = "" THEN FALSE
    ELSE LET w == WordOverlap(response1, response2)
         IN  IF w.total_unique = 0 THEN FALSE
             ELSE 10 * w.overlap > 6 * w.total_unique

(***************************************************************************)
(* The default knowledge base: create_initial_knowledge_base               *)
(***************************************************************************)
\* knowledge_base["responses"]
Responses ==
    [greeting |-> {
        "Hello! I'm Hitori, your AI assistant. How can I help you today?",
        "Hi there! I'm Hitori. What would you like to chat about?",
        "Hey! I'm Hitori, nice to meet you. What's on your mind?",
        "Hello! I'm Hitori, ready to assist you. What can I do for you?"},
     goodbye |-> {
        "Goodbye! It was great chatting with you.",
        "See you later! Feel free to come back anytime.",
        "Take care! I'll be here when you need me.",
        "Bye! Thanks for the conversation."},
     thanks |-> {
        "You're welcome! Happy to help.",
        "No problem at all! Glad I could assist.",
        "My pleasure! Let me know if you need anything else.",
        "You're very welcome! I'm here to help."},
     how_are_you |-> {
        "I'm doing great, thank you for asking! How are you?",
        "I'm wonderful! Always excited to chat. How about you?",
        "I'm doing well! Ready to help with whatever you need.",
        "I'm fantastic! Thanks for asking. What's new with you?"},
     what_are_you |-> {
        "I'm Hitori, your AI assistant! I'm here to chat, help, and learn from our conversations.",
        "I'm Hitori, an AI created to be your helpful companion. I can discuss topics, answer questions, and assist with various tasks.",
        "I'm Hitori! I'm an AI assistant designed to be conversational, helpful, and friendly.",
        "I'm Hitori, your personal AI assistant. I love chatting and helping people with whatever they need."},
     help |-> {
        "I can help with many things! Ask me questions, have a conversation, get advice, or just chat about your interests.",
        "I'm here to assist! I can answer questions, discuss topics, provide information, or simply have a friendly chat.",
        "I can help with various tasks - answering questions, having conversations, providing suggestions, or just being a good listener.",
        "I'm ready to help! Whether you need information, want to chat, or need assistance with something, I'm here for you."},
     default |-> {
        "That's interesting! Tell me more about that.",
        "I find that fascinating. What else would you like to discuss?",
        "That's a great point. Can you elaborate?",
        "I'd love to hear more about your thoughts on this.",
        "That's quite intriguing. What's your take on it?",
        "I appreciate you sharing that with me. What else is on your mind?"}]

\* knowledge_base["patterns"], and the order in which the dict lists its categories
Patterns ==
    [greeting |-> {"hello", "hi", "hey", "good morning", "good afternoon", "good evening"},
     goodbye |-> {"bye", "goodbye", "see you", "farewell", "talk to you later", "gtg"},
     thanks |-> {"thank", "thanks", "appreciate", "grateful"},
     how_are_you |-> {"how are you", "how do you feel", "how's it going"},
     what_are_you |-> {"what are you", "who are you", "tell me about yourself"},
     help |-> {"help", "assist", "support", "what can you do"}]
PatternOrder == <<"greeting", "goodbye", "thanks", "how_are_you", "what_are_you", "help">>

\* initialize_response_patterns
QuestionStarters ==
    {"That's a great question about", "When it comes to", "I think about",
     "From what I understand about", "Regarding"}
ContinuationPhrases ==
    {"What do you think about that?", "How does that sound to you?",
     "What's your experience with this?", "I'd love to hear your thoughts.",
     "What would you add to that?"}

(***************************************************************************)
(* Keyword extractor: extract_keywords                                     *)
(***************************************************************************)
StopWords ==
    {"i", "me", "my", "myself", "we", "our", "ours", "ourselves", "you", "your", "yours",
     "yourself", "yourselves", "he", "him", "his", "himself", "she", "her", "hers",
     "herself", "it", "its", "itself", "they", "them", "their", "theirs", "themselves",
     "what", "which", "who", "whom", "this", "that", "these", "those", "am", "is", "are",
     "was", "were", "be", "been", "being", "have", "has", "had", "having", "do", "does",
     "did", "doing", "a", "an", "the", "and", "but", "if", "or", "because", "as", "until",
     "while", "of", "at", "by", "for", "with", "through", "during", "before", "after",
     "above", "below", "up", "down", "in", "out", "on", "off", "over", "under", "again",
     "further", "then", "once", "know", "tell", "about"}

\* position i (1..Len+1) lies between character i-1 and character i
WordAt(s, i) == i >= 1 /\ i <= Len(s) /\ IsWordChar(Char(s, i))
LetterAt(s, i) == i >= 1 /\ i <= Len(s) /\ IsLetter(Char(s, i))
\* the regex assertion \b at position i
Boundary(s, i) == WordAt(s, i - 1) # WordAt(s, i)
\* the last index of the run of letters that starts at i (i - 1 when there is none)
LetterRunEnd(s, i) ==
    IF ~LetterAt(s, i) THEN i - 1
    ELSE CHOOSE e \in i..Len(s) :
            /\ \A k \in i..e : LetterAt(s, k)
            /\ ~LetterAt(s, e + 1)

\* re.findall(r'\b[a-zA-Z]+\b', s): the runs of letters with a word boundary on
\* both sides (a run that touches a digit or an underscore yields nothing)
LetterWords(s) ==
    {SubSeq(s, i, LetterRunEnd(s, i)) :
        i \in {j \in 1..Len(s) : /\ LetterAt(s, j)
                                  /\ ~WordAt(s, j - 1)
                                  /\ ~WordAt(s, LetterRunEnd(s, j) + 1)}}

\* Where a match of special pattern p that starts at i ends, 0 when there is
\* none (re.IGNORECASE; greedy with backtracking).
\*   1: \bK-On!?\b      2: \bBocchi[^a-z]*Rock\b
\*   3: \b[A-Za-z]+[!-][A-Za-z]*\b      4: \b[A-Z][a-z]*-[A-Z][a-z]*\b
SpecialMatchEnd(p, s, i) ==
    IF ~Boundary(s, i) \/ ~LetterAt(s, i) THEN 0
    ELSE CASE p = 1 ->
                IF Lower(Slice(s, i, i + 3)) # "k-on" THEN 0
                ELSE IF i + 4 <= Len(s) /\ Char(s, i + 4) = "!" /\ Boundary(s, i + 5)
                     THEN i + 4
                     ELSE IF Boundary(s, i + 4) THEN i + 3 ELSE 0
           [] p = 2 ->
                IF Lower(Slice(s, i, i + 5)) # "bocchi" THEN 0
                ELSE LET gaps == {k \in 0..Len(s) :
                                    /\ \A j \in (i + 6)..(i + 5 + k) :
                                          j <= Len(s) /\ ~LetterAt(s, j)
                                    /\ Lower(Slice(s, i + 6 + k, i + 9 + k)) = "rock"
                                    /\ Boundary(s, i + 10 + k)}
                     IN  IF gaps = {} THEN 0
                         ELSE (CHOOSE k \in gaps : \A g \in gaps : g <= k) + i + 9
           [] p = 3 ->
                LET e == LetterRunEnd(s, i)
                    f == LetterRunEnd(s, e + 2)
                IN  IF ~(e + 1 <= Len(s) /\ Char(s, e + 1) \in {"!", "-"}) THEN 0
                    ELSE IF Boundary(s, f + 1) THEN f
                    ELSE IF Boundary(s, e + 2) THEN e + 1
                    ELSE 0
           [] p = 4 ->
                LET e == LetterRunEnd(s, i)
                    f == LetterRunEnd(s, e + 2)
                IN  IF ~(e + 1 <= Len(s) /\ Char(s, e + 1) = "-") THEN 0
                    ELSE IF f >= e + 2 /\ Boundary(s, f + 1) THEN f
                    ELSE 0

\* re.findall(pattern p, s, re.IGNORECASE) scanning from i: the matches do not overlap
RECURSIVE FindAllSpecial(_, _, _)
FindAllSpecial(p, s, i) ==
    IF i > Len(s) THEN {}
    ELSE LET e == SpecialMatchEnd(p, s, i)
         IN  IF e > 0 THEN {SubSeq(s, i, e)} \cup FindAllSpecial(p, s, e + 1)
             ELSE FindAllSpecial(p, s, i + 1)

special_keywords(message) == UNION {FindAllSpecial(p, message, 1) : p \in 1..4}

\* extract_keywords without the stop-word filter
extract_keywords_KeepsStopWords(message) ==
    {w \in LetterWords(Lower(message)) : Len(w) > 2}
        \cup {Lower(kw) : kw \in special_keywords(message)}
        \cup special_keywords(message)

\* the set the returned list holds (list(set(keywords)))
extract_keywords(message) ==
    {w \in LetterWords(Lower(message)) : w \notin StopWords /\ Len(w) > 2}
        \cup {Lower(kw) : kw \in special_keywords(message)}
        \cup special_keywords(message)

\* The returned list is list(set(...)): its order is the hash order of the
\* run, any of the orders of the set.
Orders(S) == {o \in [1..Cardinality(S) -> S] : \A i, j \in 1..Cardinality(S) : i # j => o[i] # o[j]}

(***************************************************************************)
(* Pattern matcher, sentiment, context and intent                          *)
(***************************************************************************)
NoMatch == "None"

\* find_pattern_match: the first category, in declaration order, one of whose
\* trigger substrings occurs in the message
find_pattern_match(message) ==
    LET hits == {k \in 1..Len(PatternOrder) :
                    \E pattern \in Patterns[PatternOrder[k]] : Has(message, pattern)}
    IN  IF hits = {} THEN NoMatch
        ELSE PatternOrder[CHOOSE k \in hits : \A h \in hits : k <= h]

AnyIn(words, s) == \E w \in words : Has(s, w)

PositiveWords == {"good", "great", "awesome", "amazing", "love", "like", "happy",
                  "excited", "wonderful", "fantastic"}
NegativeWords == {"bad", "terrible", "awful", "hate", "dislike", "sad", "angry",
                  "frustrated", "disappointed"}

analyze_sentiment(message) ==
    LET message_lower == Lower(message)
        positive_count == Cardinality({w \in PositiveWords : Has(message_lower, w)})
        negative_count == Cardinality({w \in NegativeWords : Has(message_lower, w)})
    IN  IF positive_count > negative_count THEN "positive"
        ELSE IF negative_count > positive_count THEN "negative"
        ELSE "neutral"

analyze_conversation_context(message, ctx_keywords) ==
    LET m == Lower(message)
    IN  [is_question |-> Has(message, "?")
                          \/ AnyIn({"what", "how", "why", "when", "where", "who"}, m),
         is_greeting |-> AnyIn({"hello", "hi", "hey", "good morning", "good afternoon"}, m),
         is_farewell |-> AnyIn({"bye", "goodbye", "see you", "later"}, m),
         sentiment |-> analyze_sentiment(message),
         recent_topics |-> LastN(ctx_keywords, 5),
         message_length |-> SplitLen(message),
         has_enthusiasm |-> Has(message, "!")
                            \/ AnyIn({"awesome", "amazing", "great", "love", "excited"}, m),
         is_request |-> AnyIn({"can you", "could you", "please", "help me", "tell me"}, m)]

extract_message_intent(message) ==
    LET m == Lower(message)
    IN  IF Has(message, "?") \/ AnyIn({"what", "how", "why", "when", "where", "who"}, m)
        THEN "question"
        ELSE IF AnyIn({"hello", "hi", "hey", "good morning"}, m) THEN "greeting"
        ELSE IF AnyIn({"bye", "goodbye", "see you"}, m) THEN "farewell"
        ELSE IF AnyIn({"thank", "thanks", "appreciate"}, m) THEN "gratitude"
        ELSE IF AnyIn({"help", "assist", "support"}, m) THEN "help_request"
        ELSE IF AnyIn({"tell me", "explain", "describe"}, m) THEN "information_request"
        ELSE IF Has(message, "!") \/ AnyIn({"awesome", "amazing", "love", "excited"}, m)
        THEN "enthusiasm"
        ELSE "general"

(***************************************************************************)
(* Python dicts keep insertion order: a dict is the sequence of its        *)
(* <<key, value>> pairs.                                                   *)
(***************************************************************************)
EmptyDict == <<>>
DictKeys(d) == {d[i][1] : i \in 1..Len(d)}
HasKey(d, k) == \E i \in 1..Len(d) : d[i][1] = k
Get(d, k) == d[CHOOSE i \in 1..Len(d) : d[i][1] = k][2]
\* d[k] = v
Put(d, k, v) ==
    IF HasKey(d, k)
    THEN [i \in 1..Len(d) |-> IF d[i][1] = k THEN <<k, v>> ELSE d[i]]
    ELSE Append(d, <<k, v>>)

\* " ".join(parts)
RECURSIVE Join(_, _)
Join(parts, sep) ==
    IF parts = <<>> THEN ""
    ELSE IF Len(parts) = 1 THEN parts[1]
    ELSE parts[1] \o sep \o Join(Tail(parts), sep)

(***************************************************************************)
(* What a call yields: a reply string, or an exception that escapes it     *)
(***************************************************************************)
Reply(strategy, response) == [raised |-> FALSE, strategy |-> strategy, response |-> response]
Raise(strategy, exception) == [raised |-> TRUE, strategy |-> strategy, response |-> exception]

(***************************************************************************)
(* Response generator, file path: generate_response                        *)
(***************************************************************************)
generate_keyword_response(main_keyword) ==
    {"I find " \o main_keyword \o " quite interesting. What specifically interests you about it?",
     "That's a great topic about " \o main_keyword \o ". Can you tell me more?",
     "I'd love to learn more about " \o main_keyword \o " from your perspective.",
     "When you mention " \o main_keyword \o ", what comes to mind first?",
     "I'm curious about your experience with " \o main_keyword \o ".",
     "That's fascinating! How did you get interested in " \o main_keyword \o "?"}

\* every reply generate_contextual_response can build: an optional starter, a
\* fact drawn from the record's facts (no filter against earlier replies), an
\* optional continuation
generate_contextual_response(main_keyword, topic_info) ==
    LET starters == {<<>>} \cup {<<st \o " " \o main_keyword \o ",">> : st \in QuestionStarters}
        facts == IF topic_info.facts # <<>>
                 THEN {<<f>> : f \in Range(topic_info.facts)}
                 ELSE {<<>>}
        continuations == {<<>>} \cup {<<c>> : c \in ContinuationPhrases}
    IN  {IF s \o f \o c = <<>>
         THEN "That's interesting about " \o main_keyword
                  \o ". What would you like to know more about?"
         ELSE Join(s \o f \o c, " ") :
            s \in starters, f \in facts, c \in continuations}

\* generate_response.  The learned-pattern branch hands random.choice the
\* pattern's record (a dict with the keys responses, success_count, total_uses
\* and intent) instead of its responses list: random.choice indexes it with an
\* integer and KeyError escapes.
generate_response(message, keywords, tk, lr) ==
    LET pattern_match == find_pattern_match(message)
        known == {i \in 1..Len(keywords) : HasKey(tk, keywords[i])}
    IN  IF pattern_match # NoMatch
        THEN {Reply("fixed_pattern", r) : r \in Responses[pattern_match]}
        ELSE IF \E learned_pattern \in DictKeys(lr) : Has(message, learned_pattern)
        THEN {Raise("learned_pattern", "KeyError")}
        ELSE IF known # {}
        THEN LET keyword == keywords[CHOOSE i \in known : \A j \in known : i <= j]
             IN  {Reply("topic_knowledge", r) :
                    r \in generate_contextual_response(keyword, Get(tk, keyword))}
        ELSE IF keywords # <<>>
        THEN {Reply("keyword", r) : r \in generate_keyword_response(keywords[1])}
        ELSE {Reply("default", r) : r \in Responses["default"]}

(***************************************************************************)
(* Interaction learner: learn_from_interaction, add_learned_pattern        *)
(***************************************************************************)
\* the lists of a Topic Record keep their last RecentLimit entries
RecentLimit == 10

\* A plausible slip: the slice keeps the first entries instead of the last.
KeepRecent_KeepOldest(list) == IF Len(list) > RecentLimit THEN FirstN(list, RecentLimit) ELSE list

KeepRecent(list) == IF Len(list) > RecentLimit THEN LastN(list, RecentLimit) ELSE list

\* The keys a Topic Record holds are in its field keys; a list field whose
\* key is absent is empty.
LearnedKeys == {"mentions", "contexts", "facts", "sentiment_associations",
                "question_patterns", "response_effectiveness"}
StoredKeys == {"mentions", "contexts", "facts", "confidence", "source"}

\* A plausible slip: the updating branch appends the message and forgets the
\* counter.
LearnKeyword_NoIncrement(tk, keyword, user_message) ==
    IF ~HasKey(tk, keyword)
    THEN Put(tk, keyword,
             [keys |-> LearnedKeys,
              mentions |-> 1,
              contexts |-> <<user_message>>,
              facts |-> <<>>,
              sentiment_associations |-> <<analyze_sentiment(user_message)>>,
              question_patterns |-> <<>>,
              confidence |-> 0,
              source |-> ""])
    ELSE Put(tk, keyword,
             [Get(tk, keyword) EXCEPT
                !.keys = @ \cup {"sentiment_associations", "question_patterns",
                                 "response_effectiveness"},
                !.contexts = KeepRecent(Append(@, user_message)),
                !.sentiment_associations =
                    KeepRecent(Append(@, analyze_sentiment(user_message)))])

\* one pass of the loop of learn_from_interaction, for one keyword
LearnKeyword(tk, keyword, user_message) ==
    IF ~HasKey(tk, keyword)
    THEN Put(tk, keyword,
             [keys |-> LearnedKeys,
              mentions |-> 1,
              contexts |-> <<user_message>>,
              facts |-> <<>>,
              sentiment_associations |-> <<analyze_sentiment(user_message)>>,
              question_patterns |-> <<>>,
              confidence |-> 0,
              source |-> ""])
    ELSE LET topic_data == Get(tk, keyword)
             questions == IF Has(user_message, "?")
                          THEN Append(topic_data.question_patterns, user_message)
                          ELSE topic_data.question_patterns
         IN  Put(tk, keyword,
                 [topic_data EXCEPT
                    !.keys = @ \cup {"sentiment_associations", "question_patterns",
                                     "response_effectiveness"},
                    !.mentions = @ + 1,
                    !.contexts = KeepRecent(Append(@, user_message)),
                    !.sentiment_associations =
                        KeepRecent(Append(@, analyze_sentiment(user_message))),
                    !.question_patterns = KeepRecent(questions)])

RECURSIVE LearnKeywords(_, _, _)
LearnKeywords(tk, keywords, user_message) ==
    IF keywords = <<>> THEN tk
    ELSE LearnKeywords(LearnKeyword(tk, Head(keywords), user_message),
                       Tail(keywords), user_message)

\* the key of a Learned Response Pattern
PatternKeyLen == 30
PatternKey(user_message) ==
    extract_message_intent(user_message) \o ":" \o Slice(user_message, 1, PatternKeyLen)

\* A plausible slip: the reply is appended without the membership test.
add_learned_pattern_NoDedup(lr, user_message, ai_response) ==
    LET pattern_key == PatternKey(user_message)
        pattern_data == IF HasKey(lr, pattern_key) THEN Get(lr, pattern_key)
                        ELSE [responses |-> <<>>, success_count |-> 0, total_uses |-> 0,
                              intent |-> extract_message_intent(user_message)]
    IN  Put(lr, pattern_key,
            [pattern_data EXCEPT !.responses = Append(@, ai_response),
                                 !.total_uses = @ + 1])

add_learned_pattern(lr, user_message, ai_response) ==
    LET pattern_key == PatternKey(user_message)
        pattern_data == IF HasKey(lr, pattern_key) THEN Get(lr, pattern_key)
                        ELSE [responses |-> <<>>, success_count |-> 0, total_uses |-> 0,
                              intent |-> extract_message_intent(user_message)]
    IN  IF InList(ai_response, pattern_data.responses)
        THEN Put(lr, pattern_key, pattern_data)
        ELSE Put(lr, pattern_key,
                 [pattern_data EXCEPT !.responses = Append(@, ai_response),
                                      !.total_uses = @ + 1])

\* only messages longer than MinLearnLen characters are learned as patterns
MinLearnLen == 10

\* A plausible slip: the length test lets a message of MinLearnLen characters in.
learn_from_interaction_FromTen(tk, lr, user_message, ai_response, keywords) ==
    [topic_knowledge |-> LearnKeywords(tk, keywords, user_message),
     learned_responses |-> IF Len(user_message) >= MinLearnLen
                           THEN add_learned_pattern(lr, user_message, ai_response)
                           ELSE lr]

\* learn_from_interaction: the new topic_knowledge and learned_responses
learn_from_interaction(tk, lr, user_message, ai_response, keywords) ==
    [topic_knowledge |-> LearnKeywords(tk, keywords, user_message),
     learned_responses |-> IF Len(user_message) > MinLearnLen
                           THEN add_learned_pattern(lr, user_message, ai_response)
                           ELSE lr]

(***************************************************************************)
(* Knowledge store: store_knowledge_in_memory, store_learned_knowledge     *)
(***************************************************************************)
Item(topic, content, source, confidence_score) ==
    [topic |-> topic, content |-> content, source |-> source,
     confidence_score |-> confidence_score]

StoredRecord(item) ==
    [keys |-> StoredKeys,
     mentions |-> 1,
     contexts |-> <<>>,
     facts |-> <<item.content>>,
     sentiment_associations |-> <<>>,
     question_patterns |-> <<>>,
     confidence |-> item.confidence_score,
     source |-> item.source]

\* A plausible slip: the fact is appended without the membership test.
StoreItem_NoDedup(acc, item) ==
    IF ~HasKey(acc.tk, item.topic)
    THEN [tk |-> Put(acc.tk, item.topic, StoredRecord(item)),
          knowledge_added |-> acc.knowledge_added + 1]
    ELSE LET topic_data == Get(acc.tk, item.topic)
         IN  [tk |-> Put(acc.tk, item.topic,
                         [topic_data EXCEPT !.facts = Append(@, item.content)]),
              knowledge_added |-> acc.knowledge_added + 2]

\* one pass of the inner loop of store_knowledge_in_memory; knowledge_added
\* counts 1 for every item and 1 more for a fact appended to an existing record
StoreItem(acc, item) ==
    IF ~HasKey(acc.tk, item.topic)
    THEN [tk |-> Put(acc.tk, item.topic, StoredRecord(item)),
          knowledge_added |-> acc.knowledge_added + 1]
    ELSE LET topic_data == Get(acc.tk, item.topic)
         IN  IF InList(item.content, topic_data.facts)
             THEN [tk |-> acc.tk, knowledge_added |-> acc.knowledge_added + 1]
             ELSE [tk |-> Put(acc.tk, item.topic,
                              [topic_data EXCEPT !.facts = Append(@, item.content)]),
                   knowledge_added |-> acc.knowledge_added + 2]

RECURSIVE StoreItems(_, _)
StoreItems(acc, items) ==
    IF items = <<>> THEN acc
    ELSE StoreItems(StoreItem(acc, Head(items)), Tail(items))

\* the items of a knowledge_by_topic dict in the order the loops visit them
RECURSIVE FlattenItems(_)
FlattenItems(knowledge_by_topic) ==
    IF knowledge_by_topic = <<>> THEN <<>>
    ELSE Head(knowledge_by_topic)[2] \o FlattenItems(Tail(knowledge_by_topic))

\* store_knowledge_in_memory: the new topic_knowledge and the count returned
store_knowledge_in_memory(tk, knowledge_by_topic) ==
    StoreItems([tk |-> tk, knowledge_added |-> 0], FlattenItems(knowledge_by_topic))

\* A plausible slip: a new fact replaces the facts list instead of joining it.
store_learned_knowledge_ReplacesFacts(tk, topic, content, confidence, source) ==
    LET topic_lower == Lower(topic)
    IN  IF ~HasKey(tk, topic_lower)
        THEN Put(tk, topic_lower, StoredRecord(Item(topic_lower, content, source, confidence)))
        ELSE LET topic_data == Get(tk, topic_lower)
             IN  IF InList(content, topic_data.facts) THEN tk
                 ELSE Put(tk, topic_lower,
                          [topic_data EXCEPT !.facts = <<content>>,
                                             !.mentions = @ + 1])

\* store_learned_knowledge: the new topic_knowledge
store_learned_knowledge(tk, topic, content, confidence, source) ==
    LET topic_lower == Lower(topic)
    IN  IF ~HasKey(tk, topic_lower)
        THEN Put(tk, topic_lower, StoredRecord(Item(topic_lower, content, source, confidence)))
        ELSE LET topic_data == Get(tk, topic_lower)
             IN  IF InList(content, topic_data.facts) THEN tk
                 ELSE Put(tk, topic_lower,
                          [topic_data EXCEPT !.facts = Append(@, content),
                                             !.mentions = @ + 1])

(***************************************************************************)
(* Response generator, database path: the helpers of                       *)
(* generate_enhanced_response                                              *)
(***************************************************************************)
\* str.replace(c, "") for every character c of chars
RemoveChars(s, chars) ==
    ConcatRange([i \in 1..Len(s) |-> IF Char(s, i) \in chars THEN "" ELSE Char(s, i)],
                1, Len(s))

\* the replies generate_enhanced_response looks back at
RecentWindow == 5

\* recent_responses: the AI entries among the last RecentWindow entries of
\* conversation_memory
recent_responses(memory) ==
    {e.text : e \in {x \in Range(LastN(memory, RecentWindow)) : x.kind = "ai"}}

\* any(responses_too_similar(response, recent) for recent in recent_responses)
TooSimilarToRecent(response, recent) ==
    \E r \in recent : responses_too_similar(response, r)

\* topic_responses, in the order of the dict
TopicResponses ==
  <<[topic |-> "vr", is_list |-> TRUE, responses |->
        <<"VR headsets are absolutely fascinating! They create immersive virtual worlds by tracking your head movements and displaying stereoscopic images. Modern VR headsets like the Meta Quest, PlayStation VR, and Valve Index offer incredible experiences - from exploring virtual worlds to playing immersive games. What interests you most about VR technology? Are you thinking about getting one, or curious about how they work?",
          "Virtual Reality is such an exciting field! VR headsets transport you to completely different worlds using advanced display technology, motion tracking, and spatial audio. They're used for gaming, education, training simulations, and even therapy. The technology has come so far - we now have wireless headsets with hand tracking! What aspect of VR fascinates you most?",
          "VR headsets are incredible pieces of technology! They use multiple sensors, high-resolution displays, and precise tracking to create the illusion that you're somewhere else entirely. From exploring ancient civilizations to practicing surgery, VR opens up amazing possibilities. Have you tried VR before, or are you curious about what it's like?">>],
    [topic |-> "headset", is_list |-> TRUE, responses |->
        <<"Headsets come in so many varieties! There are VR headsets for virtual reality, gaming headsets for immersive audio, and professional headsets for work calls. Each type is engineered for specific purposes - VR headsets focus on visual immersion and tracking, while gaming headsets prioritize audio quality and comfort for long sessions. What type of headset are you interested in?",
          "The world of headsets is diverse and exciting! From lightweight wireless earbuds to heavy-duty professional broadcasting headsets, each serves different needs. Gaming headsets often feature surround sound and noise cancellation, while VR headsets include motion sensors and high-resolution displays. Are you looking for recommendations, or curious about how they work?">>],
    [topic |-> "pepsi", is_list |-> TRUE, responses |->
        <<"Pepsi has quite a history! It was created in 1893 by pharmacist Caleb Bradham. Interesting how it became Coca-Cola's main rival.",
          "The Cola Wars between Pepsi and Coke were fascinating! Remember the Pepsi Challenge campaigns?",
          "Pepsi's marketing has always been bold - from the 'Pepsi Generation' to celebrity endorsements. What do you think of their approach?",
          "Did you know Pepsi once briefly owned a fleet of Soviet warships? Wild business deals in the 80s!">>],
    [topic |-> "coke", is_list |-> TRUE, responses |->
        <<"Coca-Cola is the classic! That secret formula has been kept under wraps for over a century.",
          "The polar bear ads and 'Share a Coke' campaigns were genius marketing moves.",
          "Coke's global reach is incredible - it's available in almost every country on Earth.">>],
    [topic |-> "drinks", is_list |-> TRUE, responses |->
        <<"There are so many interesting beverages out there! From artisanal sodas to energy drinks to traditional teas.",
          "The beverage industry is always innovating - have you tried any unique flavors lately?",
          "I find it fascinating how different cultures have their own signature drinks.">>],
    [topic |-> "k-on", is_list |-> FALSE, responses |->
        <<"K-On! is such a delightful slice-of-life anime! It follows five high school girls in their light music club - Yui, Mio, Ritsu, Tsumugi, and Azusa. The show perfectly captures the joy of friendship and music-making.">>],
    [topic |-> "bocchi", is_list |-> FALSE, responses |->
        <<"Bocchi the Rock! is absolutely fantastic! It tells the story of Hitori Gotoh, a socially anxious guitarist who joins a band. The series brilliantly portrays social anxiety while celebrating the power of music and friendship.">>],
    [topic |-> "anime", is_list |-> FALSE, responses |->
        <<"Anime is such a rich medium! From epic adventures like Attack on Titan to heartwarming stories like Your Name, there's something for everyone. What genres do you enjoy most?">>],
    [topic |-> "music", is_list |-> FALSE, responses |->
        <<"Music truly is magical! It can instantly transport you to different emotions and memories. Whether it's a catchy pop song or a moving classical piece, music speaks to the soul.">>],
    [topic |-> "technology", is_list |-> FALSE, responses |->
        <<"Technology is evolving at an incredible pace! From AI assistants like me to quantum computers and space exploration, we're living in exciting times. What tech interests you most?">>],
    [topic |-> "hello", is_list |-> FALSE, responses |->
        <<"Hello there! I'm excited to chat with you today. What's on your mind?">>],
    [topic |-> "help", is_list |-> FALSE, responses |->
        <<"I'd love to help you with whatever you need! Whether it's answering questions, having a conversation, or exploring topics together, I'm here for you.">>]>>

TopicResponseKeys == {TopicResponses[i].topic : i \in 1..Len(TopicResponses)}
TopicRow(topic) == TopicResponses[CHOOSE i \in 1..Len(TopicResponses) : TopicResponses[i].topic = topic]

RelatedTerms ==
    <<<<"guitar", "bocchi">>,
      <<"band", "bocchi">>,
      <<"shy", "bocchi">>,
      <<"club", "k-on">>,
      <<"tea", "k-on">>,
      <<"code", "programming">>,
      <<"python", "programming">>,
      <<"javascript", "programming">>,
      <<"novel", "books">>,
      <<"story", "books">>,
      <<"gaming", "games">>,
      <<"video", "games">>,
      <<"physics", "science">>,
      <<"chemistry", "science">>,
      <<"biology", "science">>>>

\* the first topic_key a keyword matches directly, else the first related term
KeywordTopic(keyword) ==
    LET keyword_clean == RemoveChars(Lower(keyword), {"!", "-", " "})
        direct == {i \in 1..Len(TopicResponses) :
                     LET topic_key == TopicResponses[i].topic
                         topic_clean == RemoveChars(topic_key, {"-", "!"})
                     IN  \/ Has(topic_clean, keyword_clean)
                         \/ Has(keyword_clean, topic_clean)
                         \/ Lower(keyword) = topic_key
                         \/ \E word \in SplitSet(keyword) : Has(topic_key, word)}
        related == {i \in 1..Len(RelatedTerms) :
                      /\ Has(keyword_clean, RelatedTerms[i][1])
                      /\ RelatedTerms[i][2] \in TopicResponseKeys}
    IN  IF direct # {}
        THEN TopicResponses[CHOOSE i \in direct : \A j \in direct : i <= j].topic
        ELSE IF related # {}
        THEN RelatedTerms[CHOOSE i \in related : \A j \in related : i <= j][2]
        ELSE NoMatch

RECURSIVE find_best_topic_match(_)
find_best_topic_match(keywords) ==
    IF keywords = <<>> THEN NoMatch
    ELSE IF KeywordTopic(Head(keywords)) # NoMatch THEN KeywordTopic(Head(keywords))
    ELSE find_best_topic_match(Tail(keywords))

\* every reply add_contextual_flourish can build from base_response
add_contextual_flourish(base_response, context) ==
    LET question_starters == {"Great question! ",
                             "That's interesting you ask! ",
                             "I'm glad you brought that up. ",
                             ""}
        enthusiasm_enders == {" Your excitement is contagious!",
                             " I love the enthusiasm!",
                             " What got you so interested in this?",
                             ""}
        general_enders == {" What's your take on this?",
                          " Have you had experience with this?",
                          " What interests you most about it?",
                          " What would you like to know more about?",
                          ""}
        starters == IF context.is_question THEN question_starters ELSE {""}
        enders == IF context.has_enthusiasm THEN enthusiasm_enders
                  ELSE {""} \cup general_enders
    IN  {s \o base_response \o e : s \in starters, e \in enders}

generate_fresh_response(topic) ==
    IF topic = "pepsi"
    THEN {"You know, beverage history is pretty wild! What draws you to Pepsi specifically?",
          "The soft drink industry has such interesting stories. Any particular aspect you're curious about?",
          "That's a classic brand! Are you more interested in the business side or just enjoy the taste?"}
    ELSE IF topic = "coke"
    THEN {"The Coca-Cola story is fascinating from a business perspective. What interests you about it?",
          "That's one of the most recognizable brands worldwide! What aspect caught your attention?"}
    ELSE {"I'm always learning more about " \o topic
             \o ". What specifically interests you about it?"}

\* every reply select_varied_response can return
select_varied_response(topic, recent, context) ==
    LET row == TopicRow(topic)
        available_responses == {r \in Range(row.responses) : ~TooSimilarToRecent(r, recent)}
    IN  IF row.is_list
        THEN IF available_responses # {}
             THEN UNION {add_contextual_flourish(base_response, context) :
                           base_response \in available_responses}
             ELSE generate_fresh_response(topic)
        ELSE add_contextual_flourish(row.responses[1], context)

(***************************************************************************)
(* tell_joke                                                               *)
(***************************************************************************)
TechJokes ==
    {"Why do programmers prefer dark mode? Because light attracts bugs! {u1f41b}",
     "How many programmers does it take to change a light bulb? None, that's a hardware problem! {u1f4a1}",
     "Why do Java developers wear glasses? Because they can't C#! {u1f453}",
     "A SQL query goes into a bar, walks up to two tables and asks... 'Can I join you?' {u1f37a}",
     "Why don't programmers like nature? It has too many bugs! {u1f33f}{u1f41b}",
     "There are only 10 types of people in the world: those who understand binary and those who don't! {u1f604}"}
GeneralJokes ==
    {"Why don't scientists trust atoms? Because they make up everything! {u269b}{ufe0f}",
     "I told my wife she was drawing her eyebrows too high. She looked surprised! {u1f62e}",
     "Why don't eggs tell jokes? They'd crack each other up! {u1f95a}{u1f602}",
     "What do you call a fake noodle? An impasta! {u1f35d}",
     "Why did the scarecrow win an award? He was outstanding in his field! {u1f33e}",
     "What's the best thing about Switzerland? I don't know, but the flag is a big plus! {u1f1e8}{u1f1ed}{u2795}"}
AiJokes ==
    {"Why did the AI go to therapy? It had too many deep learning issues! {u1f916}",
     "What do you call an AI that sings? A neural network! {u1f3b5}",
     "Why don't robots ever panic? They have excellent processing power! {u1f4bb}",
     "What's an AI's favorite type of music? Algo-rhythms! {u1f3b6}"}
JokeFollowUps ==
    {" Hope that made you smile! Want to hear another one?",
     " Did that get a chuckle? I've got more where that came from! {u1f604}",
     " Laughter is the best debugging tool! Want another joke?",
     " Comedy is all about timing... and good material! What else can I help you with?"}

JokeTriggers == {"joke", "funny", "humor", "laugh", "tell me something funny"}
CodeTriggers == {"code", "program", "write code", "programming", "function", "script"}

tell_joke(keywords) ==
    LET jokes == IF Range(keywords) \cap {"code", "program", "tech", "computer"} # {}
                 THEN TechJokes
                 ELSE IF Range(keywords) \cap {"ai", "robot", "artificial"} # {}
                 THEN AiJokes
                 ELSE GeneralJokes
    IN  {joke \o f : joke \in jokes, f \in JokeFollowUps}

(***************************************************************************)
(* help_with_coding and its generators                                     *)
(***************************************************************************)
\* languages, in the order of the dict
Languages ==
    <<<<"python", {"python", "py", "django", "flask"}>>,
      <<"javascript", {"javascript", "js", "node", "react", "vue"}>>,
      <<"java", {"java"}>>,
      <<"c++", {"c++", "cpp"}>>,
      <<"html", {"html", "web"}>>,
      <<"css", {"css", "style"}>>,
      <<"sql", {"sql", "database"}>>>>

\* detected_lang: the first language one of whose terms occurs in the message
DetectedLang(message_lower) ==
    LET hits == {i \in 1..Len(Languages) : AnyIn(Languages[i][2], message_lower)}
    IN  IF hits = {} THEN NoMatch
        ELSE Languages[CHOOSE i \in hits : \A j \in hits : i <= j][1]

generate_function_example(language) ==
    IF language = "python"
    THEN "Here's a Python function example:\n\n{u0060}{u0060}{u0060}python\ndef calculate_factorial(n):\n    \"\"\"Calculate factorial of a number\"\"\"\n    if n <= 1:\n        return 1\n    return n * calculate_factorial(n - 1)\n\n# Usage\nresult = calculate_factorial(5)\nprint(f\"5! = {result}\")  # Output: 5! = 120\n{u0060}{u0060}{u0060}\n\nThis function uses recursion to calculate factorials. Want to see examples in other languages or different types of functions?"
    ELSE IF language = "javascript"
    THEN "Here's a JavaScript function example:\n\n{u0060}{u0060}{u0060}javascript\nfunction greetUser(name, time = 'day') {\n    return {u0060}Hello ${name}, have a great ${time}!{u0060};\n}\n\n// Usage\nconsole.log(greetUser('Alice'));         // \"Hello Alice, have a great day!\"\nconsole.log(greetUser('Bob', 'evening')); // \"Hello Bob, have a great evening!\"\n{u0060}{u0060}{u0060}\n\nThis shows function parameters with default values. Need help with arrow functions or async functions?"
    ELSE "I can help you write functions! Which programming language are you working with? I can provide examples in Python, JavaScript, Java, C++, and more. What specific type of function do you need help with?"

generate_loop_example(language) ==
    IF language = "python"
    THEN "Here are Python loop examples:\n\n{u0060}{u0060}{u0060}python\n# For loop with range\nfor i in range(5):\n    print(f\"Count: {i}\")\n\n# For loop with list\nfruits = ['apple', 'banana', 'orange']\nfor fruit in fruits:\n    print(f\"I like {fruit}\")\n\n# While loop\ncount = 0\nwhile count < 3:\n    print(f\"While loop: {count}\")\n    count += 1\n\n# List comprehension (Pythonic way)\nsquares = [x**2 for x in range(5)]\nprint(squares)  # [0, 1, 4, 9, 16]\n{u0060}{u0060}{u0060}\n\nPython loops are very readable and powerful! Need help with specific loop scenarios?"
    ELSE IF language = "javascript"
    THEN "Here are JavaScript loop examples:\n\n{u0060}{u0060}{u0060}javascript\n// For loop\nfor (let i = 0; i < 5; i++) {\n    console.log({u0060}Count: ${i}{u0060});\n}\n\n// For...of loop (arrays)\nconst fruits = ['apple', 'banana', 'orange'];\nfor (const fruit of fruits) {\n    console.log({u0060}I like ${fruit}{u0060});\n}\n\n// For...in loop (objects)\nconst person = {name: 'Alice', age: 30, city: 'New York'};\nfor (const key in person) {\n    console.log({u0060}${key}: ${person[key]}{u0060});\n}\n\n// Array methods (functional approach)\nconst numbers = [1, 2, 3, 4, 5];\nnumbers.forEach(num => console.log(num * 2));\n{u0060}{u0060}{u0060}\n\nJavaScript offers many ways to iterate! Want to learn about map, filter, or reduce?"
    ELSE "I can show you loop examples! Which programming language are you using? I have examples for Python, JavaScript, Java, C++, and more. What type of loop are you trying to create?"

generate_class_example(language) ==
    IF language = "python"
    THEN "Here's a Python class example:\n\n{u0060}{u0060}{u0060}python\nclass Dog:\n    def __init__(self, name, breed, age):\n        self.name = name\n        self.breed = breed\n        self.age = age\n        self.energy = 100\n    \n    def bark(self):\n        print(f\"{self.name} says Woof!\")\n        return \"Woof!\"\n    \n    def play(self):\n        if self.energy > 20:\n            self.energy -= 20\n            print(f\"{self.name} is playing! Energy: {self.energy}\")\n        else:\n            print(f\"{self.name} is too tired to play.\")\n    \n    def __str__(self):\n        return f\"{self.name} is a {self.age}-year-old {self.breed}\"\n\n# Usage\nmy_dog = Dog(\"Buddy\", \"Golden Retriever\", 3)\nprint(my_dog)  # \"Buddy is a 3-year-old Golden Retriever\"\nmy_dog.bark()  # \"Buddy says Woof!\"\nmy_dog.play()  # \"Buddy is playing! Energy: 80\"\n{u0060}{u0060}{u0060}\n\nThis shows constructor, methods, and string representation. Want to learn about inheritance or properties?"
    ELSE IF language = "javascript"
    THEN "Here's a JavaScript class example:\n\n{u0060}{u0060}{u0060}javascript\nclass Car {\n    constructor(make, model, year) {\n        this.make = make;\n        this.model = model;\n        this.year = year;\n        this.mileage = 0;\n    }\n    \n    start() {\n        console.log({u0060}${this.make} ${this.model} is starting...{u0060});\n        return 'Engine started!';\n    }\n    \n    drive(miles) {\n        this.mileage += miles;\n        console.log({u0060}Drove ${miles} miles. Total: ${this.mileage}{u0060});\n    }\n    \n    getInfo() {\n        return {u0060}${this.year} ${this.make} ${this.model} - ${this.mileage} miles{u0060};\n    }\n}\n\n// Usage\nconst myCar = new Car('Toyota', 'Camry', 2022);\nconsole.log(myCar.getInfo()); // \"2022 Toyota Camry - 0 miles\"\nmyCar.start();                // \"Toyota Camry is starting...\"\nmyCar.drive(150);             // \"Drove 150 miles. Total: 150\"\n{u0060}{u0060}{u0060}\n\nThis shows ES6 class syntax with constructor and methods. Need help with inheritance or static methods?"
    ELSE "I can help you create classes! Which programming language are you working with? I can show examples in Python, JavaScript, Java, C++, and more. What kind of class are you trying to build?"

generate_hello_world(language) ==
    IF language = "python"
    THEN "Here's Hello World in Python:\n\n{u0060}{u0060}{u0060}python\nprint(\"Hello, World!\")\n\n# Or with a function\ndef greet():\n    return \"Hello, World!\"\n\nprint(greet())\n{u0060}{u0060}{u0060}\n\nThis is the classic first program! Want to see it in other languages or learn what comes next?"
    ELSE IF language = "javascript"
    THEN "Here's Hello World in Javascript:\n\n{u0060}{u0060}{u0060}javascript\nconsole.log(\"Hello, World!\");\n\n// Or with a function\nfunction greet() {\n    return \"Hello, World!\";\n}\n\nconsole.log(greet());\n\n// Or as an arrow function\nconst greet = () => \"Hello, World!\";\nconsole.log(greet());\n{u0060}{u0060}{u0060}\n\nThis is the classic first program! Want to see it in other languages or learn what comes next?"
    ELSE IF language = "java"
    THEN "Here's Hello World in Java:\n\n{u0060}{u0060}{u0060}java\npublic class HelloWorld {\n    public static void main(String[] args) {\n        System.out.println(\"Hello, World!\");\n    }\n}\n{u0060}{u0060}{u0060}\n\nThis is the classic first program! Want to see it in other languages or learn what comes next?"
    ELSE IF language = "c++"
    THEN "Here's Hello World in C++:\n\n{u0060}{u0060}{u0060}cpp\n#include <iostream>\nusing namespace std;\n\nint main() {\n    cout << \"Hello, World!\" << endl;\n    return 0;\n}\n{u0060}{u0060}{u0060}\n\nThis is the classic first program! Want to see it in other languages or learn what comes next?"
    ELSE IF language = "html"
    THEN "Here's Hello World in Html:\n\n{u0060}{u0060}{u0060}html\n<!DOCTYPE html>\n<html>\n<head>\n    <title>Hello World</title>\n</head>\n<body>\n    <h1>Hello, World!</h1>\n</body>\n</html>\n{u0060}{u0060}{u0060}\n\nThis is the classic first program! Want to see it in other languages or learn what comes next?"
    ELSE "Here's Hello World in several popular languages:\n\n**Python:**\n{u0060}{u0060}{u0060}python\nprint(\"Hello, World!\")\n{u0060}{u0060}{u0060}\n\n**JavaScript:**\n{u0060}{u0060}{u0060}javascript\nconsole.log(\"Hello, World!\");\n{u0060}{u0060}{u0060}\n\n**Java:**\n{u0060}{u0060}{u0060}java\npublic class HelloWorld {\n    public static void main(String[] args) {\n        System.out.println(\"Hello, World!\");\n    }\n}\n{u0060}{u0060}{u0060}\n\nWhich language interests you most? I can provide more detailed examples and explain what each part does!"

generate_general_coding_help ==
    "I'd love to help you with coding! Here are some things I can assist with:\n\n{u1f527} **Code Examples**: Functions, loops, classes, data structures\n{u1f41b} **Debugging Tips**: Common errors and how to fix them\n{u1f4da} **Best Practices**: Clean code, naming conventions, comments\n{u1f3af} **Specific Problems**: Algorithm help, logic assistance\n{u1f4a1} **Learning Path**: What to learn next in your coding journey\n\nWhat specific coding challenge are you working on? I can provide:\n{u2022} Step-by-step explanations\n{u2022} Working code examples\n{u2022} Alternative approaches\n{u2022} Debugging strategies\n\nJust describe what you're trying to build or the problem you're solving!"

help_with_coding(message) ==
    LET message_lower == Lower(message)
        detected_lang == DetectedLang(message_lower)
    IN  IF Has(message_lower, "function") \/ Has(message_lower, "def")
        THEN generate_function_example(detected_lang)
        ELSE IF Has(message_lower, "loop")
        THEN generate_loop_example(detected_lang)
        ELSE IF Has(message_lower, "class")
        THEN generate_class_example(detected_lang)
        ELSE IF Has(message_lower, "hello world")
        THEN generate_hello_world(detected_lang)
        ELSE generate_general_coding_help

(***************************************************************************)
(* clean_knowledge_content                                                 *)
(***************************************************************************)
StartsAt(s, i, p) == i >= 1 /\ i + Len(p) - 1 <= Len(s) /\ SubSeq(s, i, i + Len(p) - 1) = p

\* re.sub(open .*? close, '', s): the leftmost, shortest stretches that open
\* with open and close with close on the same line
RECURSIVE RemoveBetween(_, _, _)
RemoveBetween(s, open, close) ==
    LET Ends(i) == {j \in (i + Len(open))..Len(s) :
                      /\ StartsAt(s, j, close)
                      /\ \A k \in (i + Len(open))..(j - 1) : Char(s, k) # "\n"}
        starts == {i \in 1..Len(s) : StartsAt(s, i, open) /\ Ends(i) # {}}
    IN  IF starts = {} THEN s
        ELSE LET i == CHOOSE x \in starts : \A y \in starts : x <= y
                 j == CHOOSE x \in Ends(i) : \A y \in Ends(i) : x <= y
             IN  Slice(s, 1, i - 1)
                     \o RemoveBetween(Slice(s, j + Len(close), Len(s)), open, close)

\* re.sub(r'\|.*', '', s): each pipe and the rest of its line
RECURSIVE RemoveFromPipe(_)
RemoveFromPipe(s) ==
    LET pipes == {i \in 1..Len(s) : Char(s, i) = "|"}
    IN  IF pipes = {} THEN s
        ELSE LET i == CHOOSE x \in pipes : \A y \in pipes : x <= y
                 eols == {j \in i..Len(s) : Char(s, j) = "\n"}
                 j == IF eols = {} THEN Len(s) + 1
                      ELSE CHOOSE x \in eols : \A y \in eols : x <= y
             IN  Slice(s, 1, i - 1) \o RemoveFromPipe(Slice(s, j, Len(s)))

\* re.sub(r'\[\d+\]', '', s)
RECURSIVE RemoveRefNumbers(_)
RemoveRefNumbers(s) ==
    LET Close(i) == {j \in (i + 2)..Len(s) :
                       /\ Char(s, j) = "]"
                       /\ \A k \in (i + 1)..(j - 1) : IsDigit(Char(s, k))}
        starts == {i \in 1..Len(s) : Char(s, i) = "[" /\ Close(i) # {}}
    IN  IF starts = {} THEN s
        ELSE LET i == CHOOSE x \in starts : \A y \in starts : x <= y
                 j == CHOOSE x \in Close(i) : TRUE
             IN  Slice(s, 1, i - 1) \o RemoveRefNumbers(Slice(s, j + 1, Len(s)))

\* re.sub(r'\s+', ' ', s)
NormalizeSpace(s) ==
    ConcatRange([i \in 1..Len(s) |->
                    IF ~IsSpace(s, i) THEN Char(s, i)
                    ELSE IF i > 1 /\ IsSpace(s, i - 1) THEN "" ELSE " "],
                1, Len(s))

\* s.split(sep) for a one-character sep
RECURSIVE SplitOn(_, _)
SplitOn(s, sep) ==
    LET seps == {i \in 1..Len(s) : Char(s, i) = sep}
    IN  IF seps = {} THEN <<s>>
        ELSE LET i == CHOOSE x \in seps : \A y \in seps : x <= y
             IN  <<Slice(s, 1, i - 1)>> \o SplitOn(Slice(s, i + 1, Len(s)), sep)

AllDigits(s) == s # "" /\ \A i \in 1..Len(s) : IsDigit(Char(s, i))

\* the markup-stripping substitutions, in the order of the code (after the
\* second one no pipe is left, so the three pipe substitutions that follow it
\* find nothing)
StripMarkup(content) ==
    LET c1 == RemoveFromPipe(RemoveBetween(content, "|", "|"))
        c2 == RemoveBetween(RemoveBetween(c1, "[[", "]]"), "{{", "}}")
        c3 == RemoveBetween(RemoveBetween(c2, "<ref", "</ref>"), "<", ">")
    IN  Strip(NormalizeSpace(RemoveRefNumbers(c3)))

MinSentenceLen == 20
MinSentenceWords == 3
MaxSentences == 2
MaxContentLen == 250

\* the sentences clean_knowledge_content keeps, in order
MeaningfulSentences(content) ==
    SelectSeq([i \in 1..Len(SplitOn(content, ".")) |-> Strip(SplitOn(content, ".")[i])],
              LAMBDA sentence : /\ Len(sentence) > MinSentenceLen
                                /\ ~Has(sentence, "|")
                                /\ ~AllDigits(sentence)
                                /\ ~StartsWith(sentence, "[")
                                /\ SplitLen(sentence) > MinSentenceWords)

\* clean_knowledge_content joining every sentence it keeps
clean_knowledge_content_AllSentences(content) ==
    IF content = "" \/ MeaningfulSentences(StripMarkup(content)) = <<>> THEN ""
    ELSE Join(MeaningfulSentences(StripMarkup(content)), ". ") \o "."

\* the loop that joins the first sentences while they fit in max_length
JoinSentences(sentences) ==
    LET fits1 == Len(sentences) >= 1 /\ Len(sentences[1]) + 2 <= MaxContentLen
        fits2 == /\ fits1
                 /\ Len(sentences) >= 2
                 /\ Len(sentences[1]) + 2 + Len(sentences[2]) + 2 <= MaxContentLen
    IN  IF fits2 THEN sentences[1] \o ". " \o sentences[2] \o "."
        ELSE IF fits1 THEN sentences[1] \o "."
        ELSE ""

clean_knowledge_content(content) ==
    IF content = "" THEN ""
    ELSE JoinSentences(FirstN(MeaningfulSentences(StripMarkup(content)), MaxSentences))

(***************************************************************************)
(* Knowledge lookups: get_knowledge_from_database, get_knowledge_from_memory *)
(***************************************************************************)
\* Confidence is counted in thousandths: 0.5 is 500.
DefaultConfidence == 500

KnowledgeItem(topic, content, confidence, source) ==
    [topic |-> topic, content |-> content, confidence |-> confidence, source |-> source]

RECURSIVE ConcatAll(_)
ConcatAll(seqs) == IF seqs = <<>> THEN <<>> ELSE Head(seqs) \o ConcatAll(Tail(seqs))

RemoveAt(seq, i) == [k \in 1..(Len(seq) - 1) |-> IF k < i THEN seq[k] ELSE seq[k + 1]]

\* sorted(items, key=confidence, reverse=True): stable
RECURSIVE SortByConfidence(_)
SortByConfidence(items) ==
    IF items = <<>> THEN <<>>
    ELSE LET best == {i \in 1..Len(items) :
                        \A j \in 1..Len(items) : items[j].confidence <= items[i].confidence}
             i == CHOOSE x \in best : \A y \in best : x <= y
         IN  <<items[i]>> \o SortByConfidence(RemoveAt(items, i))

\* column ILIKE '%keyword%'
ILike(text, keyword) == Has(Lower(text), Lower(keyword))

QueryKeywords == 2
QueryLimit == 2
QueryTop == 3

\* .filter(or_(topic ilike, content ilike)).order_by(confidence desc).limit(2):
\* every list the database may answer with (rows of equal confidence come in
\* any order)
QueryRows(rows, keyword) ==
    LET matching == {i \in 1..Len(rows) :
                       ILike(rows[i].topic, keyword) \/ ILike(rows[i].content, keyword)}
        n == IF Cardinality(matching) < QueryLimit THEN Cardinality(matching) ELSE QueryLimit
        picks == {q \in [1..n -> matching] :
                    /\ \A a, b \in 1..n : a < b =>
                          /\ q[a] # q[b]
                          /\ rows[q[a]].confidence >= rows[q[b]].confidence
                    /\ \A i \in matching : (\A a \in 1..n : q[a] # i) =>
                          \A a \in 1..n : rows[i].confidence <= rows[q[a]].confidence}
    IN  {[a \in 1..n |-> rows[q[a]]] : q \in picks}

\* every list get_knowledge_from_database can return while the queries succeed
get_knowledge_from_database(keywords, rows) ==
    IF Len(keywords) = 0 THEN {<<>>}
    ELSE IF Len(keywords) = 1
    THEN {FirstN(SortByConfidence(a), QueryTop) : a \in QueryRows(rows, keywords[1])}
    ELSE {FirstN(SortByConfidence(a \o b), QueryTop) :
            a \in QueryRows(rows, keywords[1]), b \in QueryRows(rows, keywords[2])}

HasConfidence(topic_data) == "confidence" \in topic_data.keys

MemoryKeywords == 3

\* the items one keyword adds in get_knowledge_from_memory
MemoryHits(keyword, tk) ==
    LET keyword_lower == RemoveChars(Lower(keyword), {"-", "!"})
        Hit(i) == LET topic_clean == RemoveChars(Lower(tk[i][1]), {"-", "!"})
                  IN  \/ Has(topic_clean, keyword_lower)
                      \/ Has(keyword_lower, topic_clean)
                      \/ \E fact \in Range(tk[i][2].facts) : Has(Lower(fact), keyword_lower)
        Items(i) == [f \in 1..Len(tk[i][2].facts) |->
                        KnowledgeItem(tk[i][1], tk[i][2].facts[f],
                                      IF HasConfidence(tk[i][2]) THEN tk[i][2].confidence
                                      ELSE DefaultConfidence,
                                      IF "source" \in tk[i][2].keys THEN tk[i][2].source
                                      ELSE "learned")]
    IN  ConcatAll([i \in 1..Len(tk) |-> IF Hit(i) THEN Items(i) ELSE <<>>])

get_knowledge_from_memory(keywords, tk) ==
    ConcatAll([k \in 1..Len(FirstN(keywords, MemoryKeywords)) |-> MemoryHits(keywords[k], tk)])

(***************************************************************************)
(* generate_intelligent_keyword_response, generate_knowledge_based_response, *)
(* generate_sentiment_based_response                                       *)
(***************************************************************************)
IntelligentQuestion(main_keyword) ==
    {"That's a fascinating question about " \o main_keyword \o "! Let me share what I know and learn from your perspective too. " \o main_keyword \o " is a topic with many interesting aspects - from its history and development to its current applications and future potential. What specific aspects are you most curious about? Are you looking to understand how it works, its impact, or perhaps personal experiences with it?",
     "Great question about " \o main_keyword \o "! I love exploring topics like this because there's always so much depth to discover. Whether we're talking about the technical side, the human stories behind it, or its broader implications, " \o main_keyword \o " offers rich discussion material. What prompted your curiosity about this particular topic? I'd love to hear your thoughts and share what I've learned!",
     "Excellent question! " \o main_keyword \o " is definitely worth diving deep into. I find that the best conversations happen when we can explore topics from multiple angles - the facts, the personal connections, the 'why it matters' aspects. What drew you to ask about " \o main_keyword \o "? Do you have any experience with it, or is this completely new territory you're exploring?",
     "You've touched on something really interesting with " \o main_keyword \o "! I always enjoy when conversations go in unexpected directions like this. There's often more to explore than meets the eye initially. What angle interests you most? Are you thinking about it from a practical standpoint, or are you more curious about the bigger picture and implications?",
     "That's a topic worth exploring thoroughly! " \o main_keyword \o " is one of those subjects where every question leads to more fascinating discoveries. I find that understanding the 'why' behind things is often as interesting as the 'what' and 'how'. What made you think of " \o main_keyword \o "? Let's dive into whatever aspect interests you most!"}
IntelligentPositive(main_keyword) ==
    {"I can tell you're excited about " \o main_keyword \o "! Your enthusiasm is infectious. What makes this topic so interesting to you?",
     "I love your positive energy about " \o main_keyword \o "! It's clear this resonates with you. What got you interested in it?",
     "Your excitement about " \o main_keyword \o " is wonderful! I'd love to hear what draws you to this topic.",
     "Your enthusiasm for " \o main_keyword \o " is great! What's the most exciting aspect for you?",
     "I can feel your passion for " \o main_keyword \o "! What sparked this interest?"}
IntelligentNegative(main_keyword) ==
    {"I sense you might have mixed feelings about " \o main_keyword \o ". Sometimes talking helps clarify our thoughts. What's your experience been?",
     "It seems like " \o main_keyword \o " might be challenging for you. I'm here to listen. What's been difficult about it?",
     "I understand " \o main_keyword \o " might not be sitting well with you. Would you like to share what's concerning you?",
     "I hear some hesitation about " \o main_keyword \o ". What's been troubling you about it?",
     "It sounds like " \o main_keyword \o " has been on your mind. Want to talk through what's bothering you?"}
IntelligentKnown(main_keyword) ==
    {"Ah, " \o main_keyword \o "! That's a topic I've been learning about. What's your take on it?",
     "I find " \o main_keyword \o " quite fascinating. There's always more to discover. What interests you about it?",
     main_keyword \o " is such an interesting subject. I'm curious about your perspective on it.",
     "I've encountered " \o main_keyword \o " before. What's your experience with it?",
     "That's a topic I'm familiar with! What would you like to discuss about " \o main_keyword \o "?"}
IntelligentUnknown(main_keyword) ==
    {"I'd love to learn more about " \o main_keyword \o " from you. What makes it interesting?",
     "That's a great topic - " \o main_keyword \o ". I'm always eager to explore new subjects. What would you like to discuss about it?",
     "I'm curious about " \o main_keyword \o ". Everyone has unique insights on different topics. What's yours?",
     "Tell me more about " \o main_keyword \o "! I'm always learning something new.",
     "That's intriguing! What's the story with " \o main_keyword \o "?"}

\* every reply generate_intelligent_keyword_response can return
generate_intelligent_keyword_response(keywords, context, recent, tk) ==
    LET main_keyword == IF keywords # <<>> THEN keywords[1] ELSE "that topic"
        has_knowledge == HasKey(tk, main_keyword)
        responses == IF context.is_question THEN IntelligentQuestion(main_keyword)
                     ELSE IF context.sentiment = "positive" THEN IntelligentPositive(main_keyword)
                     ELSE IF context.sentiment = "negative" THEN IntelligentNegative(main_keyword)
                     ELSE IF has_knowledge THEN IntelligentKnown(main_keyword)
                     ELSE IntelligentUnknown(main_keyword)
        available_responses == {r \in responses : ~TooSimilarToRecent(r, recent)}
    IN  IF context.is_question /\ has_knowledge /\ Get(tk, main_keyword).facts # <<>>
        THEN {"Great question about " \o main_keyword \o "! " \o fact
                 \o " What else would you like to know about it?" :
                    fact \in Range(Get(tk, main_keyword).facts)}
        ELSE IF available_responses # {} THEN available_responses
        ELSE {"That's an interesting topic! What would you like to explore about "
                 \o main_keyword \o "?"}

KnowledgeQuestionTemplates(main_keyword, content) ==
    <<"Based on what I've learned, " \o content \o " What else would you like to know about " \o main_keyword \o "?",
      "From my knowledge, " \o content \o " Any other questions about " \o main_keyword \o "?",
      "Here's what I know: " \o content \o " What interests you most about " \o main_keyword \o "?">>
KnowledgeStatementTemplates(main_keyword, content) ==
    <<"That's interesting about " \o main_keyword \o "! " \o content \o " What's your experience with this topic?",
      "Ah, " \o main_keyword \o "! " \o content \o " What do you think about that?",
      "I know a bit about " \o main_keyword \o ". " \o content \o " How does that relate to your interest?">>

\* every reply generate_knowledge_based_response can return; db_knowledge is
\* not empty
\* max(db_knowledge, key=confidence): the first item of the highest confidence
BestKnowledge(db_knowledge) ==
    LET best == {i \in 1..Len(db_knowledge) :
                   \A j \in 1..Len(db_knowledge) :
                      db_knowledge[j].confidence <= db_knowledge[i].confidence}
    IN  db_knowledge[CHOOSE x \in best : \A y \in best : x <= y]

\* the first template that is not too similar to a recent reply, else the
\* first template
FirstFreshTemplate(response_templates, recent) ==
    LET fresh == {i \in 1..Len(response_templates) :
                    ~TooSimilarToRecent(response_templates[i], recent)}
    IN  IF fresh # {}
        THEN response_templates[CHOOSE x \in fresh : \A y \in fresh : x <= y]
        ELSE response_templates[1]

\* the reply built around the cleaned content
KnowledgeReply(content, main_keyword, keywords, context, recent, tk) ==
    IF content # ""
    THEN {FirstFreshTemplate(IF context.is_question
                             THEN KnowledgeQuestionTemplates(main_keyword, content)
                             ELSE KnowledgeStatementTemplates(main_keyword, content),
                             recent)}
    ELSE generate_intelligent_keyword_response(keywords, context, recent, tk)

generate_knowledge_based_response(db_knowledge, keywords, context, recent, tk) ==
    KnowledgeReply(clean_knowledge_content(BestKnowledge(db_knowledge).content),
                   IF keywords # <<>> THEN keywords[1] ELSE "that",
                   keywords, context, recent, tk)

\* every reply generate_sentiment_based_response can return
generate_sentiment_based_response(context, recent) ==
    LET responses ==
            IF context.is_greeting
            THEN {"Hello! I'm excited to chat with you today. What's on your mind?",
                  "Hi there! I'm feeling quite curious today. What would you like to explore together?",
                  "Hey! Great to see you. I've been learning so much lately and I'm eager to share. What interests you?",
                  "Hello! Ready for an interesting conversation? What would you like to talk about?"}
            ELSE IF context.is_farewell
            THEN {"It was wonderful chatting with you! I always learn something new from our conversations. See you soon!",
                  "Take care! I really enjoyed our discussion. Until next time!",
                  "Goodbye! Thanks for the engaging conversation. I'll be here whenever you want to chat again.",
                  "See you later! I appreciate our chat today."}
            ELSE IF context.sentiment = "positive"
            THEN {"I love your positive energy! It's contagious and makes our conversation so much more enjoyable. What's bringing you joy today?",
                  "Your enthusiasm is wonderful! It reminds me why I enjoy learning and growing through our chats. What's got you excited?",
                  "That positive vibe is amazing! I find that good energy leads to the best conversations. What's on your mind?",
                  "Your good mood is infectious! What's making you feel so positive today?"}
            ELSE IF context.sentiment = "negative"
            THEN {"I can sense you might be going through something difficult. Sometimes talking helps. I'm here to listen if you'd like to share.",
                  "It sounds like things might be challenging right now. I may not have all the answers, but I'm here to support you. What's going on?",
                  "I hear that you might be struggling with something. Would it help to talk about what's bothering you?",
                  "I'm here to listen if you need someone to talk to. What's on your mind?"}
            ELSE {"I'm here and ready to chat about whatever interests you. What's been on your mind lately?",
                  "I'm curious about what you'd like to explore today. I've been learning so much and I'm eager to share ideas with you.",
                  "Every conversation teaches me something new. What would you like to discuss or discover together?",
                  "I find each chat fascinating in its own way. What topics or thoughts are capturing your attention these days?",
                  "What's interesting you today? I'm always up for a good conversation."}
        available_responses == {r \in responses : ~TooSimilarToRecent(r, recent)}
    IN  IF available_responses # {} THEN available_responses
        ELSE {"I'm here and ready to chat! What would you like to talk about?"}

(***************************************************************************)
(* Web scraper (src/web_scraper.py): calculate_confidence_score            *)
(***************************************************************************)
\* re.search(r'\b(p1|p2|...)\b', s, re.IGNORECASE) for lower-case phrases
WordSearch(phrases, s) ==
    LET lowered == Lower(s)
    IN  \E phrase \in phrases : \E i \in 1..Len(s) :
            /\ StartsAt(lowered, i, phrase)
            /\ Boundary(s, i)
            /\ Boundary(s, i + Len(phrase))

\* re.search(r'\b\d{4}\b', s)
HasYear(s) ==
    \E i \in 1..Len(s) :
        /\ \A k \in i..(i + 3) : k <= Len(s) /\ IsDigit(Char(s, k))
        /\ Boundary(s, i)
        /\ Boundary(s, i + 4)

\* a match of \b\d+\.?\d* can end at p: p is the last digit of a run of digits
\* that no word character precedes, or the dot after such a run
NumberEndsAt(s, p) ==
    LET RunOk(e) == /\ e >= 1
                    /\ IsDigit(Char(s, e))
                    /\ \E q \in 1..e : /\ \A k \in q..e : IsDigit(Char(s, k))
                                       /\ ~WordAt(s, q - 1)
    IN  RunOk(p) \/ (Char(s, p) = "." /\ RunOk(p - 1))

\* re.search(r'\b\d+\.?\d*\s*(percent|%|million|billion)\b', s)
HasQuantity(s) ==
    \E unit \in {"percent", "%", "million", "billion"} : \E u \in 2..Len(s) :
        /\ StartsAt(s, u, unit)
        /\ Boundary(s, u + Len(unit))
        /\ \E p \in 1..(u - 1) : /\ \A k \in (p + 1)..(u - 1) : IsSpace(s, k)
                                 /\ NumberEndsAt(s, p)

\* main_topic_clean in sentence_clean, None and "" being falsy
MentionsTopic(sentence, main_topic) ==
    /\ main_topic # NoMatch
    /\ main_topic # ""
    /\ Has(Lower(RemoveChars(sentence, {"-", "!"})), Lower(RemoveChars(main_topic, {"-", "!"})))

\* Python adds the boosts as IEEE doubles.  A sum that is not the decimal value
\* is written one thousandth off it: 799 is the double just below 0.8, 601 the
\* double just above 0.6.  These are the sums the five steps can meet that do
\* not come out at the decimal value.
InexactSums ==
    {<<600, -200, 399>>, <<700, -200, 499>>, <<700, 100, 799>>, <<700, 200, 899>>,
     <<799, 200, 1000>>, <<800, -200, 601>>, <<899, -200, 700>>, <<1100, -200, 901>>}

FloatAdd(score, delta) ==
    IF \E t \in InexactSums : t[1] = score /\ t[2] = delta
    THEN (CHOOSE t \in InexactSums : t[1] = score /\ t[2] = delta)[3]
    ELSE score + delta

BaseScore == 500
TopicBoost == 300
FactualBoost == 200
NumberBoost == 100
MediaBoost == 200
UncertainPenalty == 200
MinScore == 100
MaxScore == 1000

FactualWords == {"research", "study", "according to", "published", "peer-reviewed"}
MediaWords == {"anime", "manga", "series", "episode", "character", "aired", "produced", "studio"}
UncertainWords == {"might", "maybe", "possibly", "perhaps", "could be"}

\* the score before it is clamped
RawScore(sentence, main_topic) ==
    LET s1 == IF MentionsTopic(sentence, main_topic) THEN FloatAdd(BaseScore, TopicBoost)
              ELSE BaseScore
        s2 == IF WordSearch(FactualWords, sentence) THEN FloatAdd(s1, FactualBoost) ELSE s1
        s3 == IF HasYear(sentence) \/ HasQuantity(sentence) THEN FloatAdd(s2, NumberBoost) ELSE s2
        s4 == IF WordSearch(MediaWords, sentence) THEN FloatAdd(s3, MediaBoost) ELSE s3
    IN  IF WordSearch(UncertainWords, sentence) THEN FloatAdd(s4, -UncertainPenalty) ELSE s4

Max(a, b) == IF a >= b THEN a ELSE b
Min(a, b) == IF a <= b THEN a ELSE b

\* A plausible slip: the upper clamp is left out.
calculate_confidence_score_NoCeiling(sentence, main_topic) ==
    Max(MinScore, RawScore(sentence, main_topic))

calculate_confidence_score(sentence, main_topic) ==
    Max(MinScore, Min(MaxScore, RawScore(sentence, main_topic)))

(***************************************************************************)
(* Web scraper: topics of a sentence, knowledge items of a page            *)
(***************************************************************************)
\* str.replace(old, new)
RECURSIVE ReplaceStr(_, _, _)
ReplaceStr(s, old, new) ==
    LET at == {i \in 1..Len(s) : StartsAt(s, i, old)}
    IN  IF at = {} THEN s
        ELSE LET i == CHOOSE x \in at : \A y \in at : x <= y
             IN  Slice(s, 1, i - 1) \o new
                     \o ReplaceStr(Slice(s, i + Len(old), Len(s)), old, new)

\* s.split(sep)[-1]
AfterLast(s, sep) ==
    LET at == {i \in 1..Len(s) : StartsAt(s, i, sep)}
    IN  IF at = {} THEN s
        ELSE Slice(s, (CHOOSE x \in at : \A y \in at : y <= x) + Len(sep), Len(s))

\* detect_main_topic: the topic of a Wikipedia URL, else the title the title
\* patterns find in the text (NoMatch when they find none)
detect_main_topic(title, source_url) ==
    IF source_url # NoMatch /\ Has(source_url, "wikipedia.org/wiki/")
    THEN Lower(ReplaceStr(ReplaceStr(AfterLast(source_url, "/wiki/"), "_", " "), "%21", "!"))
    ELSE title

IsNounChar(c) == IsLetter(c) \/ c \in {"-", "!"}

\* s[i..e] has the shape [A-Z][a-zA-Z\-!]*(\s+[A-Z][a-zA-Z\-!]*)*
NounShape(s, i, e) ==
    /\ IsUpper(Char(s, i))
    /\ ~IsSpace(s, e)
    /\ \A k \in i..e :
          IF IsSpace(s, k) THEN IsSpace(s, k + 1) \/ IsUpper(Char(s, k + 1))
          ELSE IsNounChar(Char(s, k))

\* where the proper-noun match that starts at i ends (0 when there is none):
\* the longest stretch of that shape with a word boundary on both sides
ProperNounEnd(s, i) ==
    LET ends == {e \in i..Len(s) : NounShape(s, i, e) /\ Boundary(s, e + 1)}
    IN  IF i > Len(s) \/ ~Boundary(s, i) \/ ends = {} THEN 0
        ELSE CHOOSE e \in ends : \A f \in ends : f <= e

RECURSIVE ProperNouns(_, _)
ProperNouns(s, i) ==
    IF i > Len(s) THEN {}
    ELSE LET e == ProperNounEnd(s, i)
         IN  IF e > 0 THEN {SubSeq(s, i, e)} \cup ProperNouns(s, e + 1)
             ELSE ProperNouns(s, i + 1)

\* re.findall(r'"([^"]*)"', s)
RECURSIVE QuotedTerms(_)
QuotedTerms(s) ==
    LET quotes == {i \in 1..Len(s) : Char(s, i) = "\""}
        open == CHOOSE x \in quotes : \A y \in quotes : x <= y
        rest == {j \in quotes : j > open}
        close == CHOOSE x \in rest : \A y \in rest : x <= y
    IN  IF Cardinality(quotes) < 2 THEN {}
        ELSE {Slice(s, open + 1, close - 1)} \cup QuotedTerms(Slice(s, close + 1, Len(s)))

AnimeTerms == {"anime", "manga", "series", "show", "character", "episode", "season"}
TechTerms == {"artificial intelligence", "machine learning", "neural network", "algorithm",
              "programming", "technology", "computer", "software", "data", "system"}
SkippedTopics == {"the", "and", "but", "for", "with", "this", "that"}
MaxSentenceTopics == 5
MaxItemTopics == 2

\* the set in list(set(topics)) of extract_topics_from_sentence
SentenceTopics(sentence) ==
    LET all_topics == ProperNouns(sentence, 1)
                        \cup QuotedTerms(sentence)
                        \cup {t \in AnimeTerms \cup TechTerms : WordSearch({t}, sentence)}
    IN  {Lower(Strip(t)) : t \in {x \in all_topics : /\ Len(Strip(x)) > 1
                                                       /\ Lower(Strip(x)) \notin SkippedTopics}}

\* every list extract_topics_from_sentence can return: the set in any order,
\* cut to five
extract_topics_from_sentence(sentence) ==
    {FirstN(o, MaxSentenceTopics) : o \in Orders(SentenceTopics(sentence))}

\* the items the loop of extract_knowledge_from_text appends for one relevant
\* sentence whose topics came out as the list topics
SentenceItems(sentence, topics, main_topic, source_url) ==
    LET listed == IF main_topic # NoMatch /\ main_topic # "" /\ ~InList(main_topic, topics)
                  THEN <<main_topic>> \o topics
                  ELSE topics
        confidence_score == calculate_confidence_score(sentence, main_topic)
    IN  [k \in 1..Len(FirstN(listed, MaxItemTopics)) |->
            Item(listed[k], Strip(sentence),
                 IF source_url # NoMatch THEN source_url ELSE "web_scraping",
                 confidence_score)]

\* Every list of knowledge items extract_knowledge_from_text can return for a
\* text whose relevant sentences are, in order, the given ones, under the
\* given title.
RECURSIVE extract_knowledge_from_text(_, _, _)
extract_knowledge_from_text(sentences, title, source_url) ==
    IF sentences = <<>> THEN {<<>>}
    ELSE LET main_topic == detect_main_topic(title, source_url)
         IN  {SentenceItems(Head(sentences), topics, main_topic, source_url) \o rest :
                topics \in extract_topics_from_sentence(Head(sentences)),
                rest \in extract_knowledge_from_text(Tail(sentences), title, source_url)}

(***************************************************************************)
(* Web scraper: scrape_url, scrape_multiple_sources, get_topic_suggestions *)
(***************************************************************************)
DefaultSources ==
    <<"https://en.wikipedia.org/wiki/Artificial_intelligence",
      "https://en.wikipedia.org/wiki/Machine_learning",
      "https://en.wikipedia.org/wiki/Natural_language_processing",
      "https://www.britannica.com/technology/artificial-intelligence",
      "https://plato.stanford.edu/entries/artificial-intelligence/">>

TopicUrls ==
    <<<<"technology", <<"https://en.wikipedia.org/wiki/Technology",
                        "https://en.wikipedia.org/wiki/Computer_science",
                        "https://en.wikipedia.org/wiki/Software_engineering">>>>,
      <<"science", <<"https://en.wikipedia.org/wiki/Science",
                     "https://en.wikipedia.org/wiki/Physics",
                     "https://en.wikipedia.org/wiki/Biology">>>>,
      <<"history", <<"https://en.wikipedia.org/wiki/History",
                     "https://en.wikipedia.org/wiki/World_history">>>>,
      <<"art", <<"https://en.wikipedia.org/wiki/Art",
                 "https://en.wikipedia.org/wiki/Fine_art">>>>,
      <<"literature", <<"https://en.wikipedia.org/wiki/Literature",
                        "https://en.wikipedia.org/wiki/Fiction">>>>>>

get_topic_suggestions(user_interests) ==
    IF user_interests = <<>>
    THEN ConcatAll([i \in 1..Len(TopicUrls) |-> FirstN(TopicUrls[i][2], 2)])
    ELSE LET urls == ConcatAll([i \in 1..Len(user_interests) |->
                                   IF HasKey(TopicUrls, Lower(user_interests[i]))
                                   THEN Get(TopicUrls, Lower(user_interests[i]))
                                   ELSE <<>>])
         IN  IF urls # <<>> THEN urls ELSE DefaultSources

\* The text a URL serves is the environment's.  A page enters the model as the
\* relevant sentences extract_knowledge_from_text finds in its text; these are
\* the pages a URL can serve (the last one has no relevant sentence).
PageTexts(url) ==
    LET subject == detect_main_topic(NoMatch, url)
    IN  IF subject # NoMatch
        THEN {<<subject \o " is a manga first published in 1999",
                "Some people think " \o subject \o " might be overrated">>,
              <<subject \o " is a manga first published in 1999">>,
              <<>>}
        ELSE {<<"The show features many characters and episodes">>, <<>>}

ScrapeFailure(error) == [success |-> FALSE, error |-> error, knowledge_items |-> <<>>]
ScrapeSuccess(knowledge_items) ==
    [success |-> TRUE, error |-> "", knowledge_items |-> knowledge_items]

\* what fetching a URL can come to: the fetch or the extraction raises,
\* nothing is downloaded, the download holds no text, or a page is served
Fetch(kind, page) == [kind |-> kind, page |-> page]
Fetches(url) ==
    {Fetch("raises", <<>>), Fetch("nothing", <<>>), Fetch("no_text", <<>>)}
        \cup {Fetch("text", page) : page \in PageTexts(url)}

\* get_website_text_content: the text, or the empty string
get_website_text_content(fetch) ==
    IF fetch.kind = "text"
    THEN [empty |-> FALSE, sentences |-> fetch.page]
    ELSE [empty |-> TRUE, sentences |-> <<>>]

\* A plausible slip: a source without content counts as scraped, with no items.
ScrapeResults_EmptySucceeds(url, fetch) ==
    {ScrapeFailure("unsupported hash type md5")}
        \cup {ScrapeSuccess(items) :
                items \in extract_knowledge_from_text(get_website_text_content(fetch).sentences,
                                                      NoMatch, url)}

\* every result scrape_url can return for a fetch: no content, an exception
\* caught inside it, or the items of the page
ScrapeResults(url, fetch) ==
    IF get_website_text_content(fetch).empty
    THEN {ScrapeFailure("No content extracted")}
    ELSE {ScrapeFailure("unsupported hash type md5")}
            \cup {ScrapeSuccess(items) :
                    items \in extract_knowledge_from_text(
                                 get_website_text_content(fetch).sentences, NoMatch, url)}

\* every result scrape_url can return
scrape_url(url) == UNION {ScrapeResults(url, fetch) : fetch \in Fetches(url)}

\* urls[:n]
SliceTo(urls, n) ==
    IF n >= 0 THEN FirstN(urls, n)
    ELSE IF Len(urls) + n <= 0 THEN <<>>
    ELSE FirstN(urls, Len(urls) + n)

\* the list scrape_multiple_sources walks
SourceList(urls, max_sources) ==
    SliceTo(IF urls = <<>> THEN DefaultSources ELSE urls, max_sources)

NewResults(urls) ==
    [total_sources |-> Len(urls),
     successful_scrapes |-> 0,
     total_knowledge_items |-> 0,
     knowledge_by_topic |-> EmptyDict,
     errors |-> <<>>]

RECURSIVE GroupByTopic(_, _)
GroupByTopic(knowledge_by_topic, items) ==
    IF items = <<>> THEN knowledge_by_topic
    ELSE LET topic == Head(items).topic
             listed == IF HasKey(knowledge_by_topic, topic)
                       THEN Get(knowledge_by_topic, topic) ELSE <<>>
         IN  GroupByTopic(Put(knowledge_by_topic, topic, Append(listed, Head(items))),
                          Tail(items))

\* A plausible slip: a failed source is skipped without an error entry.
ScrapeOne_SilentFailure(results, url, result) ==
    IF result.success
    THEN [results EXCEPT
            !.successful_scrapes = @ + 1,
            !.total_knowledge_items = @ + Len(result.knowledge_items),
            !.knowledge_by_topic = GroupByTopic(@, result.knowledge_items)]
    ELSE results

\* one pass of the loop of scrape_multiple_sources
ScrapeOne(results, url, result) ==
    IF result.success
    THEN [results EXCEPT
            !.successful_scrapes = @ + 1,
            !.total_knowledge_items = @ + Len(result.knowledge_items),
            !.knowledge_by_topic = GroupByTopic(@, result.knowledge_items)]
    ELSE [results EXCEPT !.errors = Append(@, url \o ": " \o result.error)]

\* the whole loop, the sources answering with the given results
RECURSIVE ScrapeAll(_, _, _)
ScrapeAll(results, urls, outcomes) ==
    IF urls = <<>> THEN results
    ELSE ScrapeAll(ScrapeOne(results, Head(urls), Head(outcomes)), Tail(urls), Tail(outcomes))

\* the results each source of a list can answer with, source by source
OutcomeLists(urls) ==
    {o \in [1..Len(urls) -> UNION {scrape_url(urls[i]) : i \in 1..Len(urls)}] :
        \A i \in 1..Len(urls) : o[i] \in scrape_url(urls[i])}

\* every dict scrape_multiple_sources can return
scrape_multiple_sources(urls, max_sources) ==
    LET sources == SourceList(urls, max_sources)
    IN  {ScrapeAll(NewResults(sources), sources, outcomes) : outcomes \in OutcomeLists(sources)}

(***************************************************************************)
(* search_wikipedia_for_keywords                                           *)
(***************************************************************************)
WikiUrl(topic) ==
    "https://en.wikipedia.org/wiki/" \o ReplaceStr(ReplaceStr(topic, " ", "_"), "!", "%21")

WikiKeywords == 2
WikiFacts == 3
WikiEnough == 2

RECURSIVE StoreWikiItems(_, _, _)
StoreWikiItems(tk, items, wikipedia_url) ==
    IF items = <<>> THEN tk
    ELSE StoreWikiItems(store_learned_knowledge(tk, Head(items).topic, Head(items).content,
                                                Head(items).confidence_score, wikipedia_url),
                        Tail(items), wikipedia_url)

\* the loop of search_wikipedia_for_keywords from keyword k on: the items
\* found and the new topic_knowledge
RECURSIVE WikiSearch(_, _, _, _, _)
WikiSearch(keywords, k, outcomes, knowledge_items, tk) ==
    IF k > Len(keywords) \/ k > WikiKeywords
    THEN [knowledge_items |-> knowledge_items, tk |-> tk]
    ELSE LET wikipedia_url == WikiUrl(keywords[k])
             result == outcomes[k]
             items == FirstN(result.knowledge_items, WikiFacts)
             found == knowledge_items \o
                        [i \in 1..Len(items) |->
                            KnowledgeItem(items[i].topic, items[i].content,
                                          items[i].confidence_score,
                                          "wikipedia:" \o wikipedia_url)]
             stored == StoreWikiItems(tk, items, wikipedia_url)
         IN  IF result.success /\ result.knowledge_items # <<>>
             THEN IF Len(found) >= WikiEnough
                  THEN [knowledge_items |-> found, tk |-> stored]
                  ELSE WikiSearch(keywords, k + 1, outcomes, found, stored)
             ELSE WikiSearch(keywords, k + 1, outcomes, knowledge_items, tk)

\* every outcome of search_wikipedia_for_keywords (knowledge_items is empty
\* where it returns None)
search_wikipedia_for_keywords(keywords, tk) ==
    LET urls == [k \in 1..Len(FirstN(keywords, WikiKeywords)) |-> WikiUrl(keywords[k])]
    IN  {WikiSearch(keywords, 1, outcomes, <<>>, tk) : outcomes \in OutcomeLists(urls)}

(***************************************************************************)
(* generate_enhanced_response                                              *)
(***************************************************************************)
\* stored counts the store_learned_knowledge calls the turn made
Outcome(out, tk, stored) ==
    [raised |-> out.raised, strategy |-> out.strategy, response |-> out.response, tk |-> tk,
     stored |-> stored]

\* the replies once the knowledge lookups are done
EnhancedReplies(message, keywords, context, recent, db_knowledge, tk) ==
    IF AnyIn(JokeTriggers, Lower(message))
    THEN {Reply("joke", r) : r \in tell_joke(keywords)}
    ELSE IF AnyIn(CodeTriggers, Lower(message))
    THEN {Reply("coding", help_with_coding(message))}
    ELSE IF keywords # <<>>
    THEN LET matched_topic == find_best_topic_match(keywords)
         IN  IF matched_topic # NoMatch
             THEN {Reply("topic_table", r) :
                     r \in select_varied_response(matched_topic, recent, context)}
             ELSE IF db_knowledge # <<>>
             THEN {Reply("knowledge", r) :
                     r \in generate_knowledge_based_response(db_knowledge, keywords,
                                                             context, recent, tk)}
             ELSE {Reply("keyword", r) :
                     r \in generate_intelligent_keyword_response(keywords, context, recent, tk)}
    ELSE {Reply("sentiment", r) : r \in generate_sentiment_based_response(context, recent)}

\* Every outcome of generate_enhanced_response: the reply and the
\* topic_knowledge the Wikipedia search leaves.  db_result is the list
\* get_knowledge_from_database returned.
generate_enhanced_response(message, keywords, memory, ctx_keywords, tk, db_result) ==
    LET context == analyze_conversation_context(message, ctx_keywords)
        recent == recent_responses(memory)
        found == IF db_result # <<>> THEN db_result
                 ELSE get_knowledge_from_memory(keywords, tk)
        searches == IF found = <<>> /\ keywords # <<>> /\ context.is_question
                    THEN search_wikipedia_for_keywords(keywords, tk)
                    ELSE {[knowledge_items |-> <<>>, tk |-> tk]}
    IN  UNION {{Outcome(out, w.tk, Len(w.knowledge_items)) :
                  out \in EnhancedReplies(message, keywords, context, recent,
                                          IF w.knowledge_items # <<>> THEN w.knowledge_items
                                          ELSE found,
                                          w.tk)} :
                 w \in searches}

(***************************************************************************)
(* process_message                                                         *)
(***************************************************************************)
MaxTurns == 2
ContextLimit == 20
SaveEvery == 10

UserEntry(message, user_id) == [kind |-> "user", text |-> message, user_id |-> user_id]
AiEntry(response) == [kind |-> "ai", text |-> response, user_id |-> NoMatch]

Call(op, args, raised, result, info) ==
    [op |-> op, args |-> args, raised |-> raised, result |-> result, info |-> info]

\* what a database operation can do: succeed or fail while the session is
\* clean, fail once an earlier failure was not rolled back
DbOutcomes == IF db_session /\ db_txn = "clean" THEN {TRUE, FALSE} ELSE {FALSE}

\* what the lists of a topic have been sent, in arrival order
NoHistory == [contexts |-> <<>>, sentiment_associations |-> <<>>, question_patterns |-> <<>>]
HistoryOf(h, topic) == IF topic \in DOMAIN h THEN h[topic] ELSE NoHistory

HistKeyword(h, existed, keyword, user_message) ==
    LET old == HistoryOf(h, keyword)
        new == [contexts |-> Append(old.contexts, user_message),
                sentiment_associations |->
                    Append(old.sentiment_associations, analyze_sentiment(user_message)),
                question_patterns |->
                    IF existed /\ Has(user_message, "?")
                    THEN Append(old.question_patterns, user_message)
                    ELSE old.question_patterns]
    IN  [t \in DOMAIN h \cup {keyword} |-> IF t = keyword THEN new ELSE h[t]]

RECURSIVE HistKeywords(_, _, _, _)
HistKeywords(h, tk, keywords, user_message) ==
    IF keywords = <<>> THEN h
    ELSE HistKeywords(HistKeyword(h, HasKey(tk, Head(keywords)), Head(keywords), user_message),
                      LearnKeyword(tk, Head(keywords), user_message),
                      Tail(keywords), user_message)

\* save_knowledge: what the knowledge file holds once the knowledge base is
\* written to it (the responses and patterns are the same in every save)
Saved(lr, tk, interactions) ==
    [state |-> "saved", learned_responses |-> lr, topic_knowledge |-> tk,
     user_interactions |-> interactions]

\* no knowledge file on disk
NoFile ==
    [state |-> "missing", learned_responses |-> <<>>, topic_knowledge |-> <<>>,
     user_interactions |-> 0]

\* A plausible slip: the rows are looked up although the query failed.
DatabaseLookup_IgnoresFailure(keywords, rows, query_ok) ==
    get_knowledge_from_database(FirstN(keywords, QueryKeywords), rows)

\* get_knowledge_from_database on a session whose query goes through or fails
DatabaseLookup(keywords, rows, query_ok) ==
    IF query_ok
    THEN get_knowledge_from_database(FirstN(keywords, QueryKeywords), rows)
    ELSE {<<>>}

\* One process_message call: the lower-cased message, the memory with the user
\* entry, the keywords in one of their orders, the reply, what is learned
\* and stored.
Turn(raw_message, user_id) ==
    LET message == Lower(Strip(raw_message))
        memory == Append(conversation_memory, UserEntry(message, user_id))
    IN  \E keywords \in Orders(extract_keywords(message)) :
        \E query_ok \in (IF db_session /\ keywords # <<>> THEN DbOutcomes ELSE {TRUE}) :
        \E db_result \in (IF db_session /\ keywords # <<>>
                          THEN DatabaseLookup(keywords, knowledge_table, query_ok)
                          ELSE {<<>>}) :
        \E out \in (IF db_session /\ keywords # <<>>
                    THEN generate_enhanced_response(message, keywords, memory,
                             LastN(context_keywords \o keywords, ContextLimit),
                             topic_knowledge, db_result)
                    ELSE {Outcome(o, topic_knowledge, 0) :
                            o \in generate_response(message, keywords, topic_knowledge,
                                                    learned_responses)}) :
        \E store_ok \in (IF db_session /\ query_ok /\ user_id # NoMatch
                         THEN DbOutcomes ELSE {FALSE}) :
           LET learned == learn_from_interaction(out.tk, learned_responses, message,
                                                 out.response, keywords)
               saved == ~out.raised /\ (user_interactions + 1) % SaveEvery = 0
               info == [keywords |-> keywords,
                        strategy |-> out.strategy,
                        enhanced |-> db_session /\ keywords # <<>>,
                        query_ok |-> query_ok,
                        store_ok |-> store_ok,
                        saved |-> saved,
                        saves |-> out.stored + (IF saved THEN 1 ELSE 0)]
           IN  /\ user_interactions' = user_interactions + 1
               /\ context_keywords' = LastN(context_keywords \o keywords, ContextLimit)
               /\ ret' = Call("process_message", <<raw_message, user_id>>, out.raised,
                              out.response, info)
               /\ UNCHANGED <<db_session, trainings, handlers>>
               /\ IF out.raised
                  THEN /\ conversation_memory' = memory
                       /\ topic_knowledge' = out.tk
                       /\ knowledge_file' =
                             IF out.stored > 0
                             THEN Saved(learned_responses, out.tk, user_interactions + 1)
                             ELSE knowledge_file
                       /\ UNCHANGED <<learned_responses, hist, db_txn, conversation_table,
                                      knowledge_table>>
                  ELSE /\ conversation_memory' = Append(memory, AiEntry(out.response))
                       /\ topic_knowledge' = learned.topic_knowledge
                       /\ learned_responses' = learned.learned_responses
                       /\ knowledge_file' =
                             IF saved
                             THEN Saved(learned.learned_responses, learned.topic_knowledge,
                                        user_interactions + 1)
                             ELSE IF out.stored > 0
                             THEN Saved(learned_responses, out.tk, user_interactions + 1)
                             ELSE knowledge_file
                       /\ hist' = HistKeywords(hist, out.tk, keywords, message)
                       /\ db_txn' = IF db_session /\ (~query_ok \/ ~store_ok)
                                    THEN "failed" ELSE db_txn
                       /\ conversation_table' =
                             IF db_session /\ store_ok
                             THEN Append(conversation_table,
                                         [session_id |-> user_id, user_message |-> message,
                                          ai_response |-> out.response,
                                          keywords |-> keywords])
                             ELSE conversation_table
                       /\ UNCHANGED knowledge_table

\* a turn of a run of at most MaxTurns turns
ProcessMessage(raw_message, user_id) ==
    /\ user_interactions < MaxTurns
    /\ Turn(raw_message, user_id)

(***************************************************************************)
(* train_from_web                                                          *)
(***************************************************************************)
SuggestedSources == 2
MaxTrainings == 1

\* the URLs train_from_web hands to the scraper
TrainUrls(topics) ==
    IF topics # <<>>
    THEN [i \in 1..Len(topics) |-> WikiUrl(topics[i])]
            \o FirstN(get_topic_suggestions(topics), SuggestedSources)
    ELSE DefaultSources

TrainFromWeb(topics, max_sources) ==
    /\ trainings < MaxTrainings
    /\ trainings' = trainings + 1
    /\ \E results \in scrape_multiple_sources(TrainUrls(topics), max_sources) :
       \E commit_ok \in DbOutcomes :
          LET items == FlattenItems(results.knowledge_by_topic)
              stored == store_knowledge_in_memory(topic_knowledge, results.knowledge_by_topic)
              in_database == db_session /\ commit_ok
          IN  /\ knowledge_table' =
                    IF in_database
                    THEN knowledge_table \o
                            [i \in 1..Len(items) |->
                                KnowledgeItem(items[i].topic, items[i].content,
                                              items[i].confidence_score, items[i].source)]
                    ELSE knowledge_table
              /\ db_txn' = IF db_session THEN "clean" ELSE db_txn
              /\ topic_knowledge' = IF in_database THEN topic_knowledge ELSE stored.tk
              /\ knowledge_file' =
                    IF in_database THEN knowledge_file
                    ELSE Saved(learned_responses, stored.tk, user_interactions)
              /\ ret' = Call("train_from_web", <<topics, max_sources>>, FALSE,
                             [success |-> TRUE,
                              sources_scraped |-> results.successful_scrapes,
                              knowledge_items_added |-> IF in_database THEN Len(items)
                                                        ELSE stored.knowledge_added,
                              topics_learned |-> Len(results.knowledge_by_topic),
                              errors |-> results.errors],
                             [results |-> results, in_database |-> in_database])
              /\ UNCHANGED <<db_session, conversation_table, learned_responses,
                             user_interactions, conversation_memory, context_keywords,
                             hist, handlers>>

(***************************************************************************)
(* The chat service: turns and web training on one shared instance         *)
(***************************************************************************)
\* the handler threads of the HTTP layer, and a thread that handles no request
Handlers == {"thread-1", "thread-2"}
Idle ==
    [pc |-> "idle", raw_message |-> "", message |-> "", user_id |-> "", keywords |-> <<>>,
     response |-> "", strategy |-> "", enhanced |-> FALSE, query_ok |-> TRUE, stored |-> 0,
     k |-> 0, present |-> FALSE]

\* the instance after construction with no knowledge file on disk; database
\* says whether the database connection came up
Fresh(database) ==
    /\ db_session = database
    /\ db_txn = "clean"
    /\ knowledge_table = <<>>
    /\ conversation_table = <<>>
    /\ learned_responses = EmptyDict
    /\ topic_knowledge = EmptyDict
    /\ user_interactions = 0
    /\ knowledge_file = NoFile
    /\ conversation_memory = <<>>
    /\ context_keywords = <<>>
    /\ hist = <<>>
    /\ trainings = 0
    /\ handlers = [h \in Handlers |-> Idle]

Init ==
    /\ \E database \in BOOLEAN : Fresh(database)
    /\ ret = Call("init", <<>>, FALSE, "", [knowledge_file |-> NoFile])

Users == {"session-1"}
TrainTopics == {<<"cats">>}
TrainSources == 1

\* a turn of the chat with one of the given messages
Chat(messages) ==
    \E raw_message \in messages, user_id \in Users : ProcessMessage(raw_message, user_id)

\* a web training request
Train == \E topics \in TrainTopics : TrainFromWeb(topics, TrainSources)

\* messages that teach a pattern and then meet it again
PatternMessages == {"it is about me", "general:it is about me"}
Next == Chat(PatternMessages) \/ Train
Spec == Init /\ [][Next]_vars

\* greetings
GreetingMessages == {"Hello!", "hi there"}
NextGreeting == Chat(GreetingMessages) \/ Train
SpecGreeting == Init /\ [][NextGreeting]_vars

\* requests for a joke
JokeMessages == {"tell me a joke", "joke1"}
NextJoke == Chat(JokeMessages)
SpecJoke == Init /\ [][NextJoke]_vars

\* a message about a topic the web training teaches
TopicMessages == {"cats"}
NextTopic == Chat(TopicMessages) \/ Train
SpecTopic == Init /\ [][NextTopic]_vars

(***************************************************************************)
(* Claims about the chat turn                                              *)
(***************************************************************************)
\* the message of the last process_message call, as the turn sees it
LastMessage == Lower(Strip(ret.args[1]))

\* C1: process_message returns a string and no exception escapes to the
\* caller, in file mode and in database mode, whatever earlier turns learned
\* and whatever the durable store did.
C1_NoExceptionEscapes ==
    ret.op = "process_message" => ~ret.raised

\* C2: a message that holds a greeting trigger and no joke or coding phrase
\* makes the pattern matcher yield greeting and process_message return one of
\* the canned greetings verbatim, with or without the database path.
C2_GreetingReply ==
    (/\ ret.op = "process_message"
     /\ AnyIn(Patterns.greeting, LastMessage)
     /\ ~AnyIn(JokeTriggers, LastMessage)
     /\ ~AnyIn(CodeTriggers, LastMessage))
    => (/\ find_pattern_match(LastMessage) = "greeting"
        /\ ~ret.raised
        /\ ret.result \in Responses.greeting)

\* every string tell_joke can return: a fixed joke and one of the follow-ups
JokeReplies ==
    {joke \o f : joke \in TechJokes \cup GeneralJokes \cup AiJokes, f \in JokeFollowUps}

\* C3: with db_session set, a message that holds a joke-request phrase is
\* answered with a fixed joke followed by one of the follow-ups, never with a
\* topic-table, knowledge-based or generic keyword reply.
C3_JokeReply ==
    (/\ ret.op = "process_message"
     /\ db_session
     /\ \E phrase \in {"joke", "funny", "humor", "laugh"} : Has(LastMessage, phrase))
    => (/\ ~ret.raised
        /\ ret.info.strategy = "joke"
        /\ ret.result \in JokeReplies)

\* every two facts of the list are too similar to each other
MutuallySimilar(facts) ==
    \A i, j \in 1..Len(facts) : i # j => responses_too_similar(facts[i], facts[j])

\* the last two turns carried the same message and both were answered
SameMessageTwice ==
    /\ ret.op = "process_message"
    /\ ~ret.raised
    /\ Len(conversation_memory) >= 4
    /\ LET n == Len(conversation_memory)
       IN  /\ conversation_memory[n - 3].kind = "user"
           /\ conversation_memory[n - 2].kind = "ai"
           /\ conversation_memory[n - 1].kind = "user"
           /\ conversation_memory[n].kind = "ai"
           /\ conversation_memory[n - 3].text = conversation_memory[n - 1].text

\* C4: two consecutive process_message calls with the same keyword-bearing
\* message, the matched Topic Record holding at least two facts that are not
\* all mutually similar, get two different replies.
C4_RepeatedMessageVaries ==
    (/\ SameMessageTwice
     /\ ret.info.keywords # <<>>
     /\ \E k \in Range(ret.info.keywords) :
           /\ HasKey(topic_knowledge, k)
           /\ Len(Get(topic_knowledge, k).facts) >= 2
           /\ ~MutuallySimilar(Get(topic_knowledge, k).facts))
    => conversation_memory[Len(conversation_memory)].text
          # conversation_memory[Len(conversation_memory) - 2].text

(***************************************************************************)
(* The learning and storing methods called directly                        *)
(***************************************************************************)
\* what the chat and the training leave alone in a direct call
ServiceIdle ==
    UNCHANGED <<db_session, db_txn, knowledge_table, conversation_table, user_interactions,
                conversation_memory, context_keywords, trainings, handlers>>

\* learn_from_interaction, while no keyword of the call has been mentioned
\* limit times
LearnFromInteraction(user_message, ai_response, keywords, limit) ==
    /\ \A i \in 1..Len(keywords) : Len(HistoryOf(hist, keywords[i]).contexts) < limit
    /\ LET learned == learn_from_interaction(topic_knowledge, learned_responses,
                                             user_message, ai_response, keywords)
       IN  /\ topic_knowledge' = learned.topic_knowledge
           /\ learned_responses' = learned.learned_responses
    /\ hist' = HistKeywords(hist, topic_knowledge, keywords, user_message)
    /\ ret' = Call("learn_from_interaction", <<user_message, ai_response, keywords>>,
                   FALSE, NoMatch, <<>>)
    /\ UNCHANGED knowledge_file
    /\ ServiceIdle

\* an item repeats a fact its Topic Record already holds
KnownFact(tk, topic, content) == HasKey(tk, topic) /\ InList(content, Get(tk, topic).facts)

StoreKnowledgeInMemory(knowledge_by_topic) ==
    LET stored == store_knowledge_in_memory(topic_knowledge, knowledge_by_topic)
        items == FlattenItems(knowledge_by_topic)
    IN  /\ topic_knowledge' = stored.tk
        /\ knowledge_file' = Saved(learned_responses, stored.tk, user_interactions)
        /\ ret' = Call("store_knowledge_in_memory", <<knowledge_by_topic>>, FALSE,
                       stored.knowledge_added,
                       [repeated |-> \E i \in 1..Len(items) :
                                        KnownFact(topic_knowledge, items[i].topic,
                                                  items[i].content)])
        /\ UNCHANGED <<learned_responses, hist>>
        /\ ServiceIdle

StoreLearnedKnowledge(topic, content, confidence, source) ==
    /\ topic_knowledge' = store_learned_knowledge(topic_knowledge, topic, content,
                                                  confidence, source)
    /\ knowledge_file' = Saved(learned_responses, topic_knowledge', user_interactions)
    /\ ret' = Call("store_learned_knowledge", <<topic, content, confidence, source>>, FALSE,
                   NoMatch,
                   [repeated |-> KnownFact(topic_knowledge, Lower(topic), content)])
    /\ UNCHANGED <<learned_responses, hist>>
    /\ ServiceIdle

AddLearnedPattern(user_message, ai_response) ==
    /\ learned_responses' = add_learned_pattern(learned_responses, user_message, ai_response)
    /\ ret' = Call("add_learned_pattern", <<user_message, ai_response>>, FALSE, NoMatch,
                   [repeated |-> /\ HasKey(learned_responses, PatternKey(user_message))
                                 /\ InList(ai_response,
                                           Get(learned_responses,
                                               PatternKey(user_message)).responses)])
    /\ UNCHANGED <<topic_knowledge, hist, knowledge_file>>
    /\ ServiceIdle

\* Facts stored and learned side by side
StoreFacts == {"Cats are small animals", "Cats sleep a lot"}
StoreTopics == {"cats", "Cats"}
StoreConfidence == 800
StoreBatchLen == 2

\* the lists of at most n items over a set
RECURSIVE ListsUpTo(_, _)
ListsUpTo(S, n) ==
    IF n = 0 THEN {<<>>}
    ELSE LET shorter == ListsUpTo(S, n - 1)
         IN  shorter \cup {Append(l, x) : l \in shorter, x \in S}

\* the knowledge_by_topic dicts of one topic a scrape can hand over
StoreBatches ==
    {<<<<topic, [i \in 1..Len(contents) |->
                    Item(topic, contents[i], "web_scraping", StoreConfidence)]>>>> :
        topic \in StoreTopics, contents \in ListsUpTo(StoreFacts, StoreBatchLen) \ {<<>>}}

MaxStoreMentions == 2
StoreMessages == {"i love my cats"}

NextStore ==
    \/ \E user_message \in StoreMessages :
          LearnFromInteraction(user_message, "ok", <<"cats">>, MaxStoreMentions)
    \/ \E knowledge_by_topic \in StoreBatches : StoreKnowledgeInMemory(knowledge_by_topic)
    \/ \E topic \in StoreTopics, content \in StoreFacts :
          StoreLearnedKnowledge(topic, content, StoreConfidence, "wikipedia")
SpecStore == Init /\ [][NextStore]_vars

\* no list holds the same entry twice
NoDuplicates(list) == \A i, j \in 1..Len(list) : list[i] = list[j] => i = j

\* C5: from the fresh default knowledge base, after any sequence of
\* learn_from_interaction, store_knowledge_in_memory and
\* store_learned_knowledge calls, no Topic Record's facts list holds the same
\* string twice.
C5_FactsHaveNoDuplicate ==
    \A topic \in DictKeys(topic_knowledge) : NoDuplicates(Get(topic_knowledge, topic).facts)

\* a store call has just been handed a fact its Topic Record already held
C5_RepeatedFactStored ==
    /\ ret.op \in {"store_knowledge_in_memory", "store_learned_knowledge"}
    /\ ret.info.repeated
    /\ \E topic \in DictKeys(topic_knowledge) : Len(Get(topic_knowledge, topic).facts) >= 2

\* Many mentions of one topic
MaxMentions == 12
LearnMessages == {"cats?", "good cats"}

NextLearn ==
    \/ \E user_message \in LearnMessages :
          LearnFromInteraction(user_message, "ok", <<"cats">>, MaxMentions)
    \/ StoreLearnedKnowledge("cats", "Cats sleep a lot", StoreConfidence, "wikipedia")
SpecLearn == Init /\ [][NextLearn]_vars

\* the list is what is left of its history when only the last RecentLimit
\* entries are kept
KeptRecent(list, history) ==
    /\ Len(list) <= RecentLimit
    /\ list = LastN(history, RecentLimit)

\* C6: after every learn_from_interaction call each Topic Record's contexts,
\* sentiment_associations and question_patterns hold at most 10 entries, the
\* last 10 that arrived, in arrival order.
C6_ListsKeepLastTen ==
    \A topic \in DictKeys(topic_knowledge) :
        LET topic_data == Get(topic_knowledge, topic)
            history == HistoryOf(hist, topic)
        IN  /\ KeptRecent(topic_data.contexts, history.contexts)
            /\ KeptRecent(topic_data.sentiment_associations, history.sentiment_associations)
            /\ KeptRecent(topic_data.question_patterns, history.question_patterns)

\* a learn_from_interaction call has just dropped the oldest entry of each of
\* the three lists of a topic, and the entry dropped differs from the newest
C6_OldestDropped ==
    /\ ret.op = "learn_from_interaction"
    /\ \E topic \in DOMAIN hist :
          /\ Len(hist[topic].contexts) > RecentLimit
          /\ Len(hist[topic].sentiment_associations) > RecentLimit
          /\ Len(hist[topic].question_patterns) > RecentLimit
          /\ hist[topic].contexts[1] # hist[topic].contexts[Len(hist[topic].contexts)]

\* Patterns learned from messages
PatternUserMessages == {"it is about me, is it not, my friend?", "hello there!"}
PatternReplies == {"ok", "sure", "I see"}

NextPattern ==
    \E user_message \in PatternUserMessages, ai_response \in PatternReplies :
        AddLearnedPattern(user_message, ai_response)
SpecPattern == Init /\ [][NextPattern]_vars

\* C7: after any sequence of add_learned_pattern calls no Learned Response
\* Pattern's responses list holds the same reply twice.
C7_ResponsesHaveNoDuplicate ==
    \A pattern_key \in DictKeys(learned_responses) :
        NoDuplicates(Get(learned_responses, pattern_key).responses)

\* add_learned_pattern has just been handed a reply the pattern already held,
\* beside another reply
C7_RepeatedReplyLearned ==
    /\ ret.op = "add_learned_pattern"
    /\ ret.info.repeated
    /\ Len(Get(learned_responses, PatternKey(ret.args[1])).responses) >= 2

(***************************************************************************)
(* The similarity filter on given strings                                  *)
(***************************************************************************)
MaxSimLen == 3
SimAlphabet == {"a", "A", "b", " "}

\* the strings of at most n characters over the alphabet
RECURSIVE StringsUpTo(_)
StringsUpTo(n) ==
    IF n = 0 THEN {""}
    ELSE LET shorter == StringsUpTo(n - 1)
         IN  shorter \cup {t \o c : t \in shorter, c \in SimAlphabet}

\* the instance after construction, about to be handed the arguments args
Given(args) ==
    /\ \E database \in BOOLEAN : Fresh(database)
    /\ ret = Call("given", args, FALSE, NoMatch, <<>>)

InitSim ==
    \E response1 \in StringsUpTo(MaxSimLen), response2 \in StringsUpTo(MaxSimLen) :
        Given(<<response1, response2>>)

Compare ==
    /\ ret.op = "given"
    /\ ret' = Call("responses_too_similar", ret.args, FALSE,
                   responses_too_similar(ret.args[1], ret.args[2]), <<>>)
    /\ UNCHANGED <<topic_knowledge, learned_responses, hist, knowledge_file>>
    /\ ServiceIdle

SpecSim == InitSim /\ [][Compare]_vars

\* the string holds a character that is not whitespace
HasWord(a) == \E i \in 1..Len(a) : ~IsSpace(a, i)

\* C8, as the code has it: responses_too_similar(a, a) is true for every
\* string a that holds a character other than whitespace and false when a is
\* empty or only whitespace; responses_too_similar("", x) is false for every x.
C8_SelfSimilarUnlessBlank ==
    ret.op = "responses_too_similar" =>
        /\ ret.args[1] = ret.args[2] => (ret.result <=> HasWord(ret.args[1]))
        /\ Len(ret.args[1]) = 0 => ~ret.result

\* a string of whitespace only has been compared with itself and found not
\* similar
C8_BlankNotSelfSimilar ==
    /\ ret.op = "responses_too_similar"
    /\ ret.args[1] = ret.args[2]
    /\ Len(ret.args[1]) > 0
    /\ ~HasWord(ret.args[1])
    /\ ~ret.result

\* C8, as stated: responses_too_similar(a, a) is true for every non-empty
\* string a, strings of whitespace only included, and
\* responses_too_similar("", x) is false for every x.
C8_SelfSimilarWhenNonEmpty ==
    ret.op = "responses_too_similar" =>
        /\ (ret.args[1] = ret.args[2] /\ Len(ret.args[1]) > 0) => ret.result
        /\ Len(ret.args[1]) = 0 => ~ret.result

(***************************************************************************)
(* The confidence score on given sentences                                 *)
(***************************************************************************)
\* what a sentence can be made of: the topic, citation language, a year, a
\* percentage, media vocabulary, hedging
Fragments == <<"cats", "a study", "in 1999", "5 percent", "the anime", "maybe">>
MainTopics == {NoMatch, "", "cats"}

\* the fragments picked, in order, a space between them
SentenceOf(picked) ==
    Join([i \in 1..Len(Fragments) |-> IF i \in picked THEN Fragments[i] ELSE "it"], " ")

InitConf ==
    \E picked \in SUBSET (1..Len(Fragments)), main_topic \in MainTopics :
        Given(<<SentenceOf(picked), main_topic>>)

Score ==
    /\ ret.op = "given"
    /\ ret' = Call("calculate_confidence_score", ret.args, FALSE,
                   calculate_confidence_score(ret.args[1], ret.args[2]), <<>>)
    /\ UNCHANGED <<topic_knowledge, learned_responses, hist, knowledge_file>>
    /\ ServiceIdle

SpecConf == InitConf /\ [][Score]_vars

\* C9: whatever boosts and penalty apply to the base 0.5,
\* calculate_confidence_score returns a value in [0.1, 1.0].
C9_ScoreInRange ==
    ret.op = "calculate_confidence_score" =>
        /\ MinScore <= ret.result
        /\ ret.result <= MaxScore

\* a sentence that earns every boost and no penalty has been scored: the sum
\* is over 1.0 and the score returned is 1.0
C9_AllBoostsClamped ==
    /\ ret.op = "calculate_confidence_score"
    /\ MentionsTopic(ret.args[1], ret.args[2])
    /\ WordSearch(FactualWords, ret.args[1])
    /\ HasYear(ret.args[1])
    /\ WordSearch(MediaWords, ret.args[1])
    /\ ~WordSearch(UncertainWords, ret.args[1])
    /\ RawScore(ret.args[1], ret.args[2]) > MaxScore
    /\ ret.result = MaxScore

(***************************************************************************)
(* The batch scraper on given source lists                                 *)
(***************************************************************************)
MaxSources == 2
OtherUrl == "https://example.org/shows"
ScrapeUrlLists ==
    {<<>>, <<WikiUrl("cats")>>, <<OtherUrl>>,
     <<WikiUrl("cats"), OtherUrl>>, <<OtherUrl, WikiUrl("cats")>>,
     <<OtherUrl, OtherUrl>>, <<WikiUrl("cats"), OtherUrl, WikiUrl("cats")>>}

\* the limits the callers pass are counts, never negative
InitScrape ==
    \E urls \in ScrapeUrlLists, max_sources \in 0..MaxSources :
        Given(<<urls, max_sources>>)

\* scrape_multiple_sources, the sources answering with any results they can
ScrapeMultipleSources ==
    /\ ret.op = "given"
    /\ \E outcomes \in OutcomeLists(SourceList(ret.args[1], ret.args[2])) :
         ret' = Call("scrape_multiple_sources", ret.args, FALSE,
                     ScrapeAll(NewResults(SourceList(ret.args[1], ret.args[2])),
                               SourceList(ret.args[1], ret.args[2]), outcomes),
                     [sources |-> SourceList(ret.args[1], ret.args[2]),
                      outcomes |-> outcomes])
    /\ UNCHANGED <<topic_knowledge, learned_responses, hist, knowledge_file>>
    /\ ServiceIdle

SpecScrape == InitScrape /\ [][ScrapeMultipleSources]_vars

\* one line per failing source, in the order of the sources
RECURSIVE ErrorLines(_, _)
ErrorLines(sources, outcomes) ==
    IF sources = <<>> THEN <<>>
    ELSE (IF Head(outcomes).success THEN <<>>
          ELSE <<Head(sources) \o ": " \o Head(outcomes).error>>)
         \o ErrorLines(Tail(sources), Tail(outcomes))

Succeeded(outcomes) == {i \in 1..Len(outcomes) : outcomes[i].success}

BatchAccounted(results, sources, outcomes, max_sources) ==
    /\ Len(sources) <= max_sources
    /\ results.total_sources = Len(sources)
    /\ results.successful_scrapes = Cardinality(Succeeded(outcomes))
    /\ results.errors = ErrorLines(sources, outcomes)
    /\ Len(results.errors) = Len(sources) - Cardinality(Succeeded(outcomes))
    /\ \A i \in Succeeded(outcomes) :
         \A k \in 1..Len(outcomes[i].knowledge_items) :
            /\ HasKey(results.knowledge_by_topic, outcomes[i].knowledge_items[k].topic)
            /\ \E n \in 1..Len(Get(results.knowledge_by_topic,
                                   outcomes[i].knowledge_items[k].topic)) :
                 Get(results.knowledge_by_topic,
                     outcomes[i].knowledge_items[k].topic)[n] = outcomes[i].knowledge_items[k]
    /\ results.successful_scrapes + Len(results.errors) = results.total_sources

\* C10: scrape_multiple_sources walks every one of the at most max_sources
\* sources whichever of them fail: each failing source adds exactly one entry
\* to errors, every item of a succeeding source is in knowledge_by_topic under
\* its topic, and successful_scrapes + len(errors) = total_sources.
C10_BatchSurvivesFailures ==
    ret.op = "scrape_multiple_sources" =>
        BatchAccounted(ret.result, ret.info.sources, ret.info.outcomes, ret.args[2])

\* a batch has returned in which one source failed and a later one gave items
C10_FailureThenItems ==
    /\ ret.op = "scrape_multiple_sources"
    /\ \E i \in 1..Len(ret.info.outcomes), j \in 1..Len(ret.info.outcomes) :
         /\ i < j
         /\ ~ret.info.outcomes[i].success
         /\ ret.info.outcomes[j].success
         /\ ret.info.outcomes[j].knowledge_items # <<>>
    /\ Len(ret.result.errors) = 1
    /\ ret.result.knowledge_by_topic # EmptyDict

(***************************************************************************)
(* scrape_url on given sources                                             *)
(***************************************************************************)
FetchUrls ==
    {WikiUrl("cats"), WikiUrl("K-On!"), WikiUrl("machine learning"), OtherUrl}
        \cup {DefaultSources[i] : i \in 1..Len(DefaultSources)}

InitFetch == \E url \in FetchUrls : Given(<<url>>)

\* scrape_url, the source answering in any way it can
ScrapeUrl ==
    /\ ret.op = "given"
    /\ \E fetch \in Fetches(ret.args[1]) :
       \E result \in ScrapeResults(ret.args[1], fetch) :
          ret' = Call("scrape_url", ret.args, FALSE, result, [fetch |-> fetch])
    /\ UNCHANGED <<topic_knowledge, learned_responses, hist, knowledge_file>>
    /\ ServiceIdle

SpecFetch == InitFetch /\ [][ScrapeUrl]_vars

\* C11: scrape_url on a URL whose fetch fails or yields no content returns a
\* result with success = false and an error, and does not raise.
C11_NoContentIsAFailure ==
    (ret.op = "scrape_url" /\ ret.info.fetch.kind # "text") =>
        /\ ~ret.raised
        /\ ~ret.result.success
        /\ ret.result.error = "No content extracted"

\* an unreachable URL has been scraped and the result says so
C11_UnreachableScraped ==
    /\ ret.op = "scrape_url"
    /\ ret.info.fetch.kind = "nothing"
    /\ ~ret.raised
    /\ ~ret.result.success

(***************************************************************************)
(* The service with its reset                                              *)
(***************************************************************************)
\* A plausible slip: the reset opens a session when there is none.
ResetKnowledge_Reconnects ==
    \E delete_ok \in BOOLEAN :
        /\ learned_responses' = EmptyDict
        /\ topic_knowledge' = EmptyDict
        /\ user_interactions' = 0
        /\ knowledge_file' = Saved(EmptyDict, EmptyDict, 0)
        /\ conversation_memory' = <<>>
        /\ context_keywords' = <<>>
        /\ hist' = <<>>
        /\ knowledge_table' = IF delete_ok THEN <<>> ELSE knowledge_table
        /\ conversation_table' = IF delete_ok THEN <<>> ELSE conversation_table
        /\ db_session' = TRUE
        /\ db_txn' = IF delete_ok THEN "clean" ELSE "failed"
        /\ ret' = Call("reset_knowledge", <<>>, FALSE, NoMatch, [delete_ok |-> delete_ok])
        /\ UNCHANGED <<trainings, handlers>>

\* reset_knowledge: a fresh knowledge base, saved; the memory and the context
\* emptied; the tables emptied when the deletes and their commit go through
ResetKnowledge ==
    \E delete_ok \in DbOutcomes :
        /\ learned_responses' = EmptyDict
        /\ topic_knowledge' = EmptyDict
        /\ user_interactions' = 0
        /\ knowledge_file' = Saved(EmptyDict, EmptyDict, 0)
        /\ conversation_memory' = <<>>
        /\ context_keywords' = <<>>
        /\ hist' = <<>>
        /\ knowledge_table' = IF db_session /\ delete_ok THEN <<>> ELSE knowledge_table
        /\ conversation_table' = IF db_session /\ delete_ok THEN <<>> ELSE conversation_table
        /\ db_txn' = IF db_session /\ ~delete_ok THEN "failed" ELSE db_txn
        /\ ret' = Call("reset_knowledge", <<>>, FALSE, NoMatch, [delete_ok |-> delete_ok])
        /\ UNCHANGED <<db_session, trainings, handlers>>

\* a short greeting, between trainings and resets
ServiceMessages == {"hi"}
NextService == Chat(ServiceMessages) \/ Train \/ ResetKnowledge
SpecService == Init /\ [][NextService]_vars

\* a question about a topic the service knows nothing of
QuestionMessages == {"cats?"}
NextQuestion == Chat(QuestionMessages)
SpecQuestion == Init /\ [][NextQuestion]_vars

\* C12: a process_message turn saves the knowledge file only when the
\* interaction counter after its increment is a multiple of 10, once; on
\* every other turn it saves nothing, whatever strategy answers.
C12_SavedOnlyEveryTenth ==
    ret.op = "process_message" =>
        ret.info.saves = (IF user_interactions % SaveEvery = 0 THEN 1 ELSE 0)

(***************************************************************************)
(* Construction over the knowledge file a former process left              *)
(***************************************************************************)
\* the part of create_initial_knowledge_base that a run changes
create_initial_knowledge_base == Saved(EmptyDict, EmptyDict, 0)

\* A plausible slip: whatever the file still holds of the last save is used,
\* parseable or not.
load_knowledge_NoParseCheck(file) ==
    IF file.state = "missing" THEN create_initial_knowledge_base
    ELSE Saved(file.learned_responses, file.topic_knowledge, file.user_interactions)

\* load_knowledge: what json.load gives back is what json.dump was given
load_knowledge(file) ==
    IF file.state = "saved" THEN file ELSE create_initial_knowledge_base

\* the history of the lists of the records a file brings back starts with
\* what they hold
LoadedHistory(tk) ==
    [topic \in DictKeys(tk) |->
        [contexts |-> Get(tk, topic).contexts,
         sentiment_associations |-> Get(tk, topic).sentiment_associations,
         question_patterns |-> Get(tk, topic).question_patterns]]

\* __init__ in a new process: the connection comes up or not, the knowledge
\* file is loaded, the memory and the context start empty
Construct ==
    \E database \in BOOLEAN :
        /\ db_session' = database
        /\ db_txn' = "clean"
        /\ learned_responses' = load_knowledge(knowledge_file).learned_responses
        /\ topic_knowledge' = load_knowledge(knowledge_file).topic_knowledge
        /\ user_interactions' = load_knowledge(knowledge_file).user_interactions
        /\ conversation_memory' = <<>>
        /\ context_keywords' = <<>>
        /\ hist' = LoadedHistory(load_knowledge(knowledge_file).topic_knowledge)
        /\ ret' = Call("init", <<>>, FALSE, "", [knowledge_file |-> knowledge_file])
        /\ UNCHANGED <<knowledge_file, knowledge_table, conversation_table, trainings,
                       handlers>>

\* the environment: the file is removed, or is left in a state json cannot read
FileLost ==
    /\ knowledge_file.state # "missing"
    /\ knowledge_file' = NoFile
    /\ UNCHANGED <<db_session, db_txn, knowledge_table, conversation_table,
                   learned_responses, topic_knowledge, user_interactions,
                   conversation_memory, context_keywords, hist, trainings, handlers, ret>>

FileDamaged ==
    /\ knowledge_file.state = "saved"
    /\ knowledge_file' = [knowledge_file EXCEPT !.state = "unparseable"]
    /\ UNCHANGED <<db_session, db_txn, knowledge_table, conversation_table,
                   learned_responses, topic_knowledge, user_interactions,
                   conversation_memory, context_keywords, hist, trainings, handlers, ret>>

NextRestart ==
    \/ \E topic \in StoreTopics, content \in StoreFacts :
          StoreLearnedKnowledge(topic, content, StoreConfidence, "wikipedia")
    \/ \E ai_response \in PatternReplies :
          AddLearnedPattern("it is about me, is it not, my friend?", ai_response)
    \/ FileLost
    \/ FileDamaged
    \/ Construct
SpecRestart == Init /\ [][NextRestart]_vars

\* C13: when the knowledge file is missing or cannot be parsed, construction
\* does not fail and the knowledge base is the fresh one: no learned
\* responses, no topic knowledge, user_interactions = 0.
C13_FreshWhenFileUnusable ==
    (ret.op = "init" /\ ret.info.knowledge_file.state \in {"missing", "unparseable"}) =>
        /\ ~ret.raised
        /\ learned_responses = EmptyDict
        /\ topic_knowledge = EmptyDict
        /\ user_interactions = 0

\* an instance has been constructed over a file that cannot be parsed
C13_ConstructedOverDamagedFile ==
    /\ ret.op = "init"
    /\ ret.info.knowledge_file.state = "unparseable"
    /\ ret.info.knowledge_file.topic_knowledge # EmptyDict
    /\ topic_knowledge = EmptyDict

(***************************************************************************)
(* Claims about the durable store                                          *)
(***************************************************************************)
\* C14: once construction has left db_session unset it stays unset through
\* every process_message, train_from_web and reset_knowledge call: no
\* reconnect, every turn on the file and in-memory path, the tables untouched.
C14_StaysInFileMode ==
    [][~db_session =>
          /\ ~db_session'
          /\ ret'.op = "process_message" => ~ret'.info.enhanced
          /\ UNCHANGED <<knowledge_table, conversation_table, db_txn>>]_vars

\* without a session the service has been trained, has answered and has
\* been reset
C14_ResetInFileMode ==
    /\ ~db_session
    /\ trainings = 1
    /\ ret.op = "reset_knowledge"
    /\ knowledge_file = Saved(EmptyDict, EmptyDict, 0)

\* the durable write of the last call failed
WriteFailed ==
    /\ db_session
    /\ \/ ret.op = "process_message" /\ ~ret.raised /\ ~ret.info.store_ok
       \/ ret.op = "train_from_web" /\ ~ret.info.in_database
       \/ ret.op = "reset_knowledge" /\ ~ret.info.delete_ok

\* C15: whenever a durable-store write fails (the conversation insert, the
\* batch insert of train_from_web, the deletes of reset_knowledge) the
\* session's transaction is rolled back before the operation returns.
C15_FailedWriteRolledBack == WriteFailed => db_txn = "clean"

\* the replies of a turn whose database lookup found nothing
RepliesWithoutDatabase(raw_message, user_id, keywords) ==
    generate_enhanced_response(Lower(Strip(raw_message)), keywords,
                               Append(conversation_memory,
                                      UserEntry(Lower(Strip(raw_message)), user_id)),
                               LastN(context_keywords \o keywords, ContextLimit),
                               topic_knowledge, <<>>)

\* C16: when the query of get_knowledge_from_database fails, nothing is
\* propagated: the lookup counts as empty, generate_enhanced_response goes on
\* with the in-memory lookup and the strategies after it, and process_message
\* returns a reply for the turn.
C16_FailedQueryCountsAsEmpty ==
    [][(ret'.op = "process_message" /\ ret'.info.enhanced /\ ~ret'.info.query_ok) =>
          /\ ~ret'.raised
          /\ \E out \in RepliesWithoutDatabase(ret'.args[1], ret'.args[2], ret'.info.keywords) :
                /\ out.response = ret'.result
                /\ out.strategy = ret'.info.strategy
                /\ ~out.raised]_vars

\* a turn whose query failed has been answered from the facts held in memory
C16_AnsweredFromMemory ==
    /\ ret.op = "process_message"
    /\ ret.info.enhanced
    /\ ~ret.info.query_ok
    /\ ~ret.raised
    /\ ret.info.strategy = "knowledge"

(***************************************************************************)
(* The keyword extractor on given messages                                 *)
(***************************************************************************)
KeywordTokens == {"The", "cats", "Cats", "ok", "K-On!", "I-5", "rock-n", "about"}

\* the empty message, one token, and two tokens with a space between them
KeywordMessages ==
    {""} \cup KeywordTokens \cup {a \o " " \o b : a \in KeywordTokens, b \in KeywordTokens}

InitKeywords == \E message \in KeywordMessages : Given(<<message>>)

\* two calls on the same message, each list in one of the orders of its set
ExtractKeywords ==
    /\ ret.op = "given"
    /\ \E keywords \in Orders(extract_keywords(ret.args[1])),
          again \in Orders(extract_keywords(ret.args[1])) :
            ret' = Call("extract_keywords", ret.args, FALSE, keywords, [again |-> again])
    /\ UNCHANGED <<topic_knowledge, learned_responses, hist, knowledge_file>>
    /\ ServiceIdle

SpecKeywords == InitKeywords /\ [][ExtractKeywords]_vars

\* the text is a match of one of the special patterns in the message (the
\* patterns ignore case: the lower-cased match is a match in the lower-cased message)
IsSpecialMatch(text, message) ==
    text \in special_keywords(message) \cup special_keywords(Lower(message))

\* C17: extract_keywords returns a list without duplicates, none of whose
\* elements is a stop word, and whose elements that are not matches of a
\* special pattern have at least 3 characters; a second call on the same
\* message returns the same set.
C17_KeywordsFiltered ==
    ret.op = "extract_keywords" =>
        /\ \A i, j \in 1..Len(ret.result) : i # j => ret.result[i] # ret.result[j]
        /\ \A k \in Range(ret.result) :
              /\ k \notin StopWords
              /\ ~IsSpecialMatch(k, ret.args[1]) => Len(k) >= 3
        /\ Range(ret.info.again) = Range(ret.result)

\* a message with a stop word, whose keywords hold a two-character special
\* match next to an ordinary word
C17_ShortSpecialAmongKeywords ==
    /\ ret.op = "extract_keywords"
    /\ LetterWords(Lower(ret.args[1])) \cap StopWords # {}
    /\ \E k \in Range(ret.result) : Len(k) < 3
    /\ \E k \in Range(ret.result) : Len(k) >= 3 /\ ~IsSpecialMatch(k, ret.args[1])

(***************************************************************************)
(* clean_knowledge_content on given contents                               *)
(***************************************************************************)
\* pieces of page text: sentences, table cells, markup, fragments too short
\* to keep, a lone number, a reference marker, a sentence too long to be
\* followed by another
ContentParts ==
    {"Cats are small furry animals that purr. ",
     "K-On is a manga about a school band. ",
     "Dogs are loyal |x| animals that bark often. ",
     "| name | age |\n",
     "It is a very long row | cut here. \n",
     "See [[cats]] and <b>dogs</b>, they are pets[12]. ",
     "A cat. ",
     "12345678901234567890123. ",
     "[note] this is a reference marker line. ",
     "Hitori Gotoh plays the guitar alone in her room every single day after "
        \o "school and uploads the recordings under the name guitarhero while "
        \o "dreaming of a band she could join in her high school some day soon "
        \o "enough to matter. "}

\* the empty content, and one, two or three pieces in a row
Contents ==
    {""} \cup ContentParts
         \cup {a \o b : a \in ContentParts, b \in ContentParts}
         \cup {a \o b \o c : a \in ContentParts, b \in ContentParts, c \in ContentParts}

InitClean == \E content \in Contents : Given(<<content>>)

CleanKnowledgeContent ==
    /\ ret.op = "given"
    /\ ret' = Call("clean_knowledge_content", ret.args, FALSE,
                   clean_knowledge_content(ret.args[1]), <<>>)
    /\ UNCHANGED <<topic_knowledge, learned_responses, hist, knowledge_file>>
    /\ ServiceIdle

SpecClean == InitClean /\ [][CleanKnowledgeContent]_vars

\* the fragment passes the filter of the sentence loop
Qualifies(sentence) ==
    /\ Len(sentence) > MinSentenceLen
    /\ ~Has(sentence, "|")
    /\ ~AllDigits(sentence)
    /\ ~StartsWith(sentence, "[")
    /\ SplitLen(sentence) > MinSentenceWords

\* the fragments between the periods of the content once its markup is removed
SentenceFragments(content) ==
    {Strip(SplitOn(StripMarkup(content), ".")[i]) :
        i \in 1..Len(SplitOn(StripMarkup(content), "."))}

\* C18: clean_knowledge_content returns the empty string, or a text without
\* a pipe character that ends with a period and is one or two qualifying
\* sentence fragments of the content, each followed by a period.
C18_CleanedOrEmpty ==
    ret.op = "clean_knowledge_content" =>
        \/ ret.result = ""
        \/ /\ ~Has(ret.result, "|")
           /\ Char(ret.result, Len(ret.result)) = "."
           /\ \E n \in 1..MaxSentences :
                \E sentences \in [1..n -> {f \in SentenceFragments(ret.args[1]) : Qualifies(f)}] :
                    ret.result = Join(sentences, ". ") \o "."

\* a content with a pipe and three qualifying sentences, cleaned to a text
C18_PipeAndThreeSentences ==
    /\ ret.op = "clean_knowledge_content"
    /\ Has(ret.args[1], "|")
    /\ Cardinality({f \in SentenceFragments(ret.args[1]) : Qualifies(f)}) >= 3
    /\ ret.result # ""

(***************************************************************************)
(* Claims about the learned-pattern branch and the recent replies          *)
(***************************************************************************)
\* C19: in a turn answered by generate_response whose message matches no
\* fixed pattern and holds a stored learned-pattern key, the reply is one of
\* the strings of the responses list of such a pattern.
C19_ReplyFromLearnedPattern ==
    [][(/\ ret'.op = "process_message"
        /\ ~ret'.info.enhanced
        /\ find_pattern_match(Lower(Strip(ret'.args[1]))) = NoMatch
        /\ \E key \in DictKeys(learned_responses) : Has(Lower(Strip(ret'.args[1])), key))
       => (/\ ~ret'.raised
           /\ \E key \in DictKeys(learned_responses) :
                /\ Has(Lower(Strip(ret'.args[1])), key)
                /\ ret'.result \in Range(Get(learned_responses, key).responses))]_vars

\* six turns about code with the durable store connected: the enhanced
\* path answers, and the message fixes the reply
MaxRecentTurns == 6
RecentMessages == {"code", "function"}
InitRecent == Init /\ db_session
NextRecent ==
    \E raw_message \in RecentMessages, user_id \in Users :
        /\ user_interactions < MaxRecentTurns
        /\ Turn(raw_message, user_id)
SpecRecent == InitRecent /\ [][NextRecent]_vars

\* the memory generate_enhanced_response read in the last turn: the entries
\* up to the user's message, before the reply was appended
MemoryAtTurn ==
    IF ret.raised THEN conversation_memory
    ELSE SubSeq(conversation_memory, 1, Len(conversation_memory) - 1)

\* the texts of the last n AI replies of the memory
LastReplies(memory, n) ==
    {e.text : e \in Range(LastN(SelectSeq(memory, LAMBDA x : x.kind = "ai"), n))}

\* C20: in a turn handled by generate_enhanced_response the recent replies
\* the similarity filter reads are the last 5 AI replies of the conversation
\* memory, all of them when there are fewer.
C20_RecentAreLastFiveReplies ==
    (ret.op = "process_message" /\ ret.info.enhanced)
        => recent_responses(MemoryAtTurn) = LastReplies(MemoryAtTurn, RecentWindow)

(***************************************************************************)
(* Claims about the conversation memory                                    *)
(***************************************************************************)
\* the entries of the turns the look-back window of the similarity filter
\* speaks of: a user entry and an AI entry for each of RecentWindow turns
MemoryLimit == 2 * RecentWindow

\* C21: the conversation memory is bounded: its length never exceeds a fixed
\* limit however many messages are processed, older turns being dropped.
C21_MemoryBounded == Len(conversation_memory) <= MemoryLimit

(***************************************************************************)
(* Claims about the interaction learner                                    *)
(***************************************************************************)
\* C22: after a learn_from_interaction call whose message holds a question
\* mark, the message is the last element of the question_patterns list of
\* the Topic Record of each keyword of the call, also when the call created
\* the record.
C22_QuestionRecorded ==
    (ret.op = "learn_from_interaction" /\ Has(ret.args[1], "?"))
        => \A keyword \in Range(ret.args[3]) :
              /\ HasKey(topic_knowledge, keyword)
              /\ LET questions == Get(topic_knowledge, keyword).question_patterns
                 IN  questions # <<>> /\ questions[Len(questions)] = ret.args[1]

\* Calls about one topic, another, or both, beside a stored topic
MaxMentionCalls == 3
MentionMessages == {"good cats and dogs"}
MentionKeywords == {<<"cats">>, <<"dogs">>, <<"cats", "dogs">>}

NextMentions ==
    \/ \E user_message \in MentionMessages, keywords \in MentionKeywords :
          LearnFromInteraction(user_message, "ok", keywords, MaxMentionCalls)
    \/ \E topic \in {"cats", "birds"} :
          StoreLearnedKnowledge(topic, "They sleep a lot", StoreConfidence, "wikipedia")
SpecMentions == Init /\ [][NextMentions]_vars

\* the mentions of the topic, 0 when it has no Topic Record
MentionsOf(tk, topic) == IF HasKey(tk, topic) THEN Get(tk, topic).mentions ELSE 0

\* C23: a learn_from_interaction call raises mentions by exactly 1 for each
\* keyword of the call (to 1 when it creates the Topic Record) and leaves
\* the mentions of every other Topic Record as they were, creating and
\* removing no other record.
C23_MentionsRaisedByOne ==
    [][ret'.op = "learn_from_interaction"
       => \A topic \in DictKeys(topic_knowledge) \cup DictKeys(topic_knowledge')
                        \cup Range(ret'.args[3]) :
             /\ MentionsOf(topic_knowledge', topic) =
                   MentionsOf(topic_knowledge, topic)
                       + (IF topic \in Range(ret'.args[3]) THEN 1 ELSE 0)
             /\ HasKey(topic_knowledge', topic) =
                   (HasKey(topic_knowledge, topic) \/ topic \in Range(ret'.args[3]))]_vars

\* a call with two keywords has created the record of one and updated the
\* record of the other, beside a record it had no keyword for
C23_CreatedAndUpdated ==
    /\ ret.op = "learn_from_interaction"
    /\ Len(ret.args[3]) = 2
    /\ MentionsOf(topic_knowledge, "cats") >= 3
    /\ MentionsOf(topic_knowledge, "dogs") = 1
    /\ MentionsOf(topic_knowledge, "birds") = 1

\* Messages of 10, 11 and more than 30 characters, two of which share their
\* first 30 characters
IntentMessages ==
    {"0123456789", "hello there",
     "it is about me, is it not, my friend?", "it is about me, is it not, my foe?"}

NextIntent ==
    \E user_message \in IntentMessages, ai_response \in PatternReplies :
        LearnFromInteraction(user_message, ai_response, <<>>, MaxMentions)
SpecIntent == Init /\ [][NextIntent]_vars

\* the intent, a colon, and the first PatternKeyLen characters of the message
IntentKey(user_message) ==
    extract_message_intent(user_message) \o ":"
        \o SubSeq(user_message, 1, Min(PatternKeyLen, Len(user_message)))

\* C24: a learn_from_interaction call with a message longer than 10
\* characters leaves a Learned Response Pattern under the key made of the
\* intent and the first 30 characters of the message, which holds the reply,
\* and touches no other pattern; a call with a message of 10 characters or
\* fewer leaves the learned-pattern store as it was.
C24_PatternLearnedWhenLong ==
    [][ret'.op = "learn_from_interaction"
       => IF Len(ret'.args[1]) > 10
          THEN /\ HasKey(learned_responses', IntentKey(ret'.args[1]))
               /\ InList(ret'.args[2],
                         Get(learned_responses', IntentKey(ret'.args[1])).responses)
               /\ Get(learned_responses', IntentKey(ret'.args[1])).intent =
                     extract_message_intent(ret'.args[1])
               /\ DictKeys(learned_responses') =
                     DictKeys(learned_responses) \cup {IntentKey(ret'.args[1])}
               /\ \A key \in DictKeys(learned_responses) \ {IntentKey(ret'.args[1])} :
                     Get(learned_responses', key) = Get(learned_responses, key)
          ELSE learned_responses' = learned_responses]_vars

\* a call with a message longer than 30 characters has left a second reply
\* in the one pattern that it shares with the message of the same first 30
\* characters
C24_SharedKeyUpdated ==
    /\ ret.op = "learn_from_interaction"
    /\ ret.args[1] = "it is about me, is it not, my foe?"
    /\ Len(Get(learned_responses, IntentKey(ret.args[1])).responses) >= 2
    /\ Cardinality(DictKeys(learned_responses)) = 1

(***************************************************************************)
(* Claims about the life of Topic Records                                  *)
(***************************************************************************)
\* a turn, a training, stores and resets side by side
MaxRecordTurns == 1
RecordMessages == {"code"}
RecordBatches ==
    {<<<<"cats", <<Item("cats", "Cats are small animals", "web_scraping", StoreConfidence)>>>>>>}

NextRecords ==
    \/ \E raw_message \in RecordMessages, user_id \in Users :
          /\ user_interactions < MaxRecordTurns
          /\ Turn(raw_message, user_id)
    \/ Train
    \/ \E knowledge_by_topic \in RecordBatches : StoreKnowledgeInMemory(knowledge_by_topic)
    \/ StoreLearnedKnowledge("Cats", "Cats sleep a lot", StoreConfidence, "wikipedia")
    \/ ResetKnowledge
SpecRecords == Init /\ [][NextRecords]_vars

\* every Topic Record of tk is a record of after, with all its facts
RecordsKept(tk, after) ==
    \A topic \in DictKeys(tk) :
        /\ HasKey(after, topic)
        /\ Range(Get(tk, topic).facts) \subseteq Range(Get(after, topic).facts)

\* C25: process_message, train_from_web, store_knowledge_in_memory and
\* store_learned_knowledge remove no Topic Record and no fact of a Topic
\* Record; reset_knowledge leaves topic_knowledge and learned_responses empty
\* and user_interactions at 0.
C25_RecordsKeptUntilReset ==
    [][IF ret'.op = "reset_knowledge"
       THEN /\ topic_knowledge' = EmptyDict
            /\ learned_responses' = EmptyDict
            /\ user_interactions' = 0
       ELSE RecordsKept(topic_knowledge, topic_knowledge')]_vars

\* a turn has created a Topic Record beside a record that holds two facts
C25_FactsKeptThroughTurn ==
    /\ ret.op = "process_message"
    /\ ~ret.raised
    /\ HasKey(topic_knowledge, "cats")
    /\ Len(Get(topic_knowledge, "cats").facts) >= 2
    /\ HasKey(topic_knowledge, "code")

(***************************************************************************)
(* The HTTP layer: /chat requests handled by the threads of the server.    *)
(* app.run starts the development server of Flask, which hands every       *)
(* request to a thread of its own; chat() calls process_message on the one *)
(* shared instance and nothing in it takes a lock, so a thread can be      *)
(* suspended between any two statements of process_message.                *)
(***************************************************************************)
MaxRequests == 2
ServeMessages == {"code"}

UserEntries(memory) == SelectSeq(memory, LAMBDA e : e.kind = "user")

\* chat() accepts the request and process_message appends the user's entry
ChatBegin(h, raw_message, user_id) ==
    /\ handlers[h].pc = "idle"
    /\ Len(UserEntries(conversation_memory)) < MaxRequests
    /\ Strip(raw_message) # ""
    /\ handlers' = [handlers EXCEPT ![h] =
                      [Idle EXCEPT !.pc = "count",
                                   !.raw_message = Strip(raw_message),
                                   !.message = Lower(Strip(raw_message)),
                                   !.user_id = user_id]]
    /\ conversation_memory' =
          Append(conversation_memory, UserEntry(Lower(Strip(raw_message)), user_id))
    /\ UNCHANGED <<db_session, db_txn, knowledge_table, conversation_table,
                   learned_responses, topic_knowledge, user_interactions, knowledge_file,
                   context_keywords, hist, trainings, ret>>

\* the interaction counter, the keywords and the context
ChatCount(h) ==
    /\ handlers[h].pc = "count"
    /\ \E keywords \in Orders(extract_keywords(handlers[h].message)) :
          /\ handlers' = [handlers EXCEPT ![h].pc = "respond", ![h].keywords = keywords]
          /\ context_keywords' = LastN(context_keywords \o keywords, ContextLimit)
    /\ user_interactions' = user_interactions + 1
    /\ UNCHANGED <<db_session, db_txn, knowledge_table, conversation_table,
                   learned_responses, topic_knowledge, knowledge_file,
                   conversation_memory, hist, trainings, ret>>

\* the reply: generate_enhanced_response or generate_response, on the shared
\* state as it is now; an exception ends the request (chat() answers 500)
ChatRespond(h) ==
    LET self == handlers[h]
        enhanced == db_session /\ self.keywords # <<>>
    IN  /\ self.pc = "respond"
        /\ \E query_ok \in (IF enhanced THEN DbOutcomes ELSE {TRUE}) :
           \E db_result \in (IF enhanced
                             THEN DatabaseLookup(self.keywords, knowledge_table, query_ok)
                             ELSE {<<>>}) :
           \E out \in (IF enhanced
                       THEN generate_enhanced_response(self.message, self.keywords,
                                conversation_memory, context_keywords, topic_knowledge,
                                db_result)
                       ELSE {Outcome(o, topic_knowledge, 0) :
                               o \in generate_response(self.message, self.keywords,
                                                       topic_knowledge, learned_responses)}) :
              /\ topic_knowledge' = out.tk
              /\ knowledge_file' = IF out.stored > 0
                                   THEN Saved(learned_responses, out.tk, user_interactions)
                                   ELSE knowledge_file
              /\ db_txn' = IF enhanced /\ ~query_ok THEN "failed" ELSE db_txn
              /\ IF out.raised
                 THEN /\ handlers' = [handlers EXCEPT ![h] = Idle]
                      /\ ret' = Call("process_message", <<self.raw_message, self.user_id>>,
                                     TRUE, out.response,
                                     [keywords |-> self.keywords, strategy |-> out.strategy,
                                      enhanced |-> enhanced, query_ok |-> query_ok,
                                      store_ok |-> FALSE, saved |-> FALSE,
                                      saves |-> out.stored])
                 ELSE /\ handlers' = [handlers EXCEPT ![h] =
                                        [self EXCEPT !.pc = "learn",
                                                     !.response = out.response,
                                                     !.strategy = out.strategy,
                                                     !.enhanced = enhanced,
                                                     !.query_ok = query_ok,
                                                     !.stored = out.stored,
                                                     !.k = 1]]
                      /\ UNCHANGED ret
        /\ UNCHANGED <<db_session, knowledge_table, conversation_table, learned_responses,
                       user_interactions, conversation_memory, context_keywords, hist,
                       trainings>>

\* learn_from_interaction, the test of its loop for the keyword at hand: is
\* there a Topic Record
ChatLearnCheck(h) ==
    /\ handlers[h].pc = "learn"
    /\ handlers[h].k <= Len(handlers[h].keywords)
    /\ handlers' = [handlers EXCEPT
                      ![h].pc = "learn_write",
                      ![h].present = HasKey(topic_knowledge, handlers[h].keywords[handlers[h].k])]
    /\ UNCHANGED <<db_session, db_txn, knowledge_table, conversation_table,
                   learned_responses, topic_knowledge, user_interactions, knowledge_file,
                   conversation_memory, context_keywords, hist, trainings, ret>>

\* the branch the test chose: a new record is assigned (over whatever another
\* thread has assigned since), or the record is updated
ChatLearnWrite(h) ==
    LET self == handlers[h]
        keyword == self.keywords[self.k]
    IN  /\ self.pc = "learn_write"
        /\ topic_knowledge' =
              IF self.present
              THEN LearnKeyword(topic_knowledge, keyword, self.message)
              ELSE Put(topic_knowledge, keyword,
                       Get(LearnKeyword(EmptyDict, keyword, self.message), keyword))
        /\ hist' = HistKeywords(hist, topic_knowledge, <<keyword>>, self.message)
        /\ handlers' = [handlers EXCEPT ![h].pc = "learn", ![h].k = self.k + 1]
        /\ UNCHANGED <<db_session, db_txn, knowledge_table, conversation_table,
                       learned_responses, user_interactions, knowledge_file,
                       conversation_memory, context_keywords, trainings, ret>>

\* the end of learn_from_interaction: the learned pattern
ChatLearnPattern(h) ==
    /\ handlers[h].pc = "learn"
    /\ handlers[h].k > Len(handlers[h].keywords)
    /\ learned_responses' =
          IF Len(handlers[h].message) > MinLearnLen
          THEN add_learned_pattern(learned_responses, handlers[h].message,
                                   handlers[h].response)
          ELSE learned_responses
    /\ handlers' = [handlers EXCEPT ![h].pc = "finish"]
    /\ UNCHANGED <<db_session, db_txn, knowledge_table, conversation_table,
                   topic_knowledge, user_interactions, knowledge_file,
                   conversation_memory, context_keywords, hist, trainings, ret>>

\* the conversation row, the AI entry, the periodic save, and the return
ChatFinish(h) ==
    LET self == handlers[h]
        saved == user_interactions % SaveEvery = 0
    IN  /\ self.pc = "finish"
        /\ \E store_ok \in (IF db_session /\ self.user_id # NoMatch
                            THEN DbOutcomes ELSE {FALSE}) :
              /\ conversation_table' =
                    IF db_session /\ store_ok
                    THEN Append(conversation_table,
                                [session_id |-> self.user_id, user_message |-> self.message,
                                 ai_response |-> self.response, keywords |-> self.keywords])
                    ELSE conversation_table
              /\ db_txn' = IF db_session /\ ~store_ok THEN "failed" ELSE db_txn
              /\ ret' = Call("process_message", <<self.raw_message, self.user_id>>, FALSE,
                             self.response,
                             [keywords |-> self.keywords, strategy |-> self.strategy,
                              enhanced |-> self.enhanced, query_ok |-> self.query_ok,
                              store_ok |-> store_ok, saved |-> saved,
                              saves |-> self.stored + (IF saved THEN 1 ELSE 0)])
        /\ conversation_memory' = Append(conversation_memory, AiEntry(self.response))
        /\ knowledge_file' = IF saved
                             THEN Saved(learned_responses, topic_knowledge, user_interactions)
                             ELSE knowledge_file
        /\ handlers' = [handlers EXCEPT ![h] = Idle]
        /\ UNCHANGED <<db_session, knowledge_table, learned_responses, topic_knowledge,
                       user_interactions, context_keywords, hist, trainings>>

NextServe ==
    \E h \in Handlers :
        \/ \E raw_message \in ServeMessages, user_id \in Users :
              ChatBegin(h, raw_message, user_id)
        \/ ChatCount(h)
        \/ ChatRespond(h)
        \/ ChatLearnCheck(h)
        \/ ChatLearnWrite(h)
        \/ ChatLearnPattern(h)
        \/ ChatFinish(h)
SpecServe == Init /\ [][NextServe]_vars

\* the user entries of the memory whose message has the topic among its keywords
MessagesAbout(topic) ==
    {i \in 1..Len(conversation_memory) :
        /\ conversation_memory[i].kind = "user"
        /\ topic \in extract_keywords(conversation_memory[i].text)}

\* C26: one message is fully processed before the next is accepted: no two
\* process_message executions are under way at once, and once N messages
\* are processed user_interactions has grown by N and every Topic Record
\* counts every message about its topic.
C26_OneMessageAtATime ==
    /\ Cardinality({h \in Handlers : handlers[h].pc # "idle"}) <= 1
    /\ (\A h \in Handlers : handlers[h].pc = "idle")
          => /\ user_interactions = Len(UserEntries(conversation_memory))
             /\ \A topic \in DictKeys(topic_knowledge) :
                   MentionsOf(topic_knowledge, topic) = Cardinality(MessagesAbout(topic))

\* all requests answered, and a Topic Record that counts fewer messages than
\* were about its topic
LostTopicUpdate ==
    /\ \A h \in Handlers : handlers[h].pc = "idle"
    /\ \E topic \in DictKeys(topic_knowledge) :
          MentionsOf(topic_knowledge, topic) < Cardinality(MessagesAbout(topic))

(***************************************************************************)
(* Claims about the web extractor and the chat turn                        *)
(***************************************************************************)
\* the facts of the topic, none when it has no Topic Record
FactsOf(tk, topic) == IF HasKey(tk, topic) THEN Get(tk, topic).facts ELSE <<>>

\* C27: the web extractor runs only through train_from_web: a
\* process_message call hands no scraped item to the Knowledge Store and
\* leaves the facts of every Topic Record as they were.
C27_NoFetchInTurn ==
    [][ret'.op = "process_message"
       => /\ ret'.info.saves = (IF ret'.info.saved THEN 1 ELSE 0)
          /\ \A topic \in DictKeys(topic_knowledge') :
                FactsOf(topic_knowledge', topic) = FactsOf(topic_knowledge, topic)]_vars

\* messages without a keyword that no fixed pattern matches
FallbackMessages == {"ok", "i am up"}
NextFallback == Chat(FallbackMessages)
SpecFallback == Init /\ [][NextFallback]_vars

\* C28: a message without keywords that no earlier strategy matches is
\* classified by greeting, farewell and sentiment, and the reply is one of
\* the templates of its family that is not too similar to a recent reply
\* (the fixed fallback when all of them are).
C28_SentimentFamilyReply ==
    (/\ ret.op = "process_message"
     /\ ~ret.raised
     /\ ret.info.keywords = <<>>
     /\ find_pattern_match(LastMessage) = NoMatch
     /\ ~\E key \in DictKeys(learned_responses) : Has(LastMessage, key))
    => ret.result \in generate_sentiment_based_response(
                          analyze_conversation_context(LastMessage, context_keywords),
                          recent_responses(MemoryAtTurn))

\* the number of fact strings the Topic Records hold
RECURSIVE FactCount(_)
FactCount(tk) ==
    IF tk = <<>> THEN 0 ELSE Len(Head(tk)[2].facts) + FactCount(Tail(tk))

\* C29: when train_from_web stores the scraped items through the in-memory
\* path, the knowledge_items_added it reports is the number of fact strings
\* the call added to the facts lists of the Topic Records.
C29_ReportedCountIsFactsAdded ==
    [][(ret'.op = "train_from_web" /\ ~ret'.info.in_database)
       => ret'.result.knowledge_items_added =
             FactCount(topic_knowledge') - FactCount(topic_knowledge)]_vars

(***************************************************************************)
(* The /clear route                                                        *)
(***************************************************************************)
\* clear_chat: the memory keeps the entries whose user_id is not the
\* session's (an AI entry has no user_id: msg.get('user_id') is None)
ClearChat(session_id) ==
    /\ conversation_memory' =
          SelectSeq(conversation_memory, LAMBDA msg : msg.user_id # session_id)
    /\ ret' = Call("clear_chat", <<session_id>>, FALSE, NoMatch, <<>>)
    /\ UNCHANGED <<db_session, db_txn, knowledge_table, conversation_table,
                   learned_responses, topic_knowledge, user_interactions, knowledge_file,
                   context_keywords, hist, trainings, handlers>>

\* two sessions talk to the shared instance and clear their chats
Sessions == {"session-1", "session-2"}
ClearMessages == {"code"}
NextClear ==
    \/ \E raw_message \in ClearMessages, session_id \in Sessions :
          ProcessMessage(raw_message, session_id)
    \/ \E session_id \in Sessions : ClearChat(session_id)
SpecClear == Init /\ [][NextClear]_vars

\* the entries of the memory that the turns of the session produced: its
\* user entries and the AI entry that follows each of them
ProducedBy(memory, session_id) ==
    {i \in 1..Len(memory) :
        \/ memory[i].kind = "user" /\ memory[i].user_id = session_id
        \/ /\ memory[i].kind = "ai"
           /\ i > 1
           /\ memory[i - 1].kind = "user"
           /\ memory[i - 1].user_id = session_id}

\* the memory without the entries at the given places
RECURSIVE Without(_, _)
Without(memory, places) ==
    IF memory = <<>> THEN <<>>
    ELSE Without(SubSeq(memory, 1, Len(memory) - 1), places)
            \o (IF Len(memory) \in places THEN <<>> ELSE <<memory[Len(memory)]>>)

\* C30: after /clear for a session the conversation memory holds no entry
\* its turns produced, neither its user messages nor the AI replies given
\* to it, and keeps the entries of the other sessions.
C30_SessionEntriesCleared ==
    [][ret'.op = "clear_chat"
       => conversation_memory' =
             Without(conversation_memory,
                     ProducedBy(conversation_memory, ret'.args[1]))]_vars

====
